---- MODULE Spec2Model ----
(***************************************************************************)
(* Verification model of the asklio procurement portal: the field          *)
(* validators (lib/validation.ts), the request form (RequestForm), the     *)
(* create-from-extraction path (frontend App.tsx), the kanban / table      *)
(* status clients and the status workflow of the backend they talk to.     *)
(*                                                                         *)
(* Strings are sequences of one-character strings.  Decimal numbers are    *)
(* integers counting units of 1/10000 (see Unit), so that the product of   *)
(* two numbers with at most two decimals is represented exactly.           *)
(***************************************************************************)
EXTENDS Integers, Sequences, FiniteSets, TLC

VARIABLES
    app,                \* which front end runs: "portal" (asklio-portal-main)
                        \* or "frontend" (frontend/)
    \* ---- validator harness ------------------------------------------
    input,              \* the raw string handed to a validator
    fn,                 \* the function applied to it ("none" before)
    args,               \* the other arguments of the call (maxLength, min, max)
    result,             \* what it returned
    \* ---- status workflow: backend tables and the clients' state ------
    db,                 \* requests table: id -> [status, updated_at]
    status_history,     \* status_history table (audit trail), oldest first
    clock,              \* CURRENT_TIMESTAMP of the backend
    requests,           \* the client's fetched list: id -> status
    draggedRequestId,   \* KanbanBoard state
    lastCall,           \* the last PATCH /status call and its outcome
    \* ---- request form ------------------------------------------------
    formData,           \* RequestForm formData
    typed,              \* per text field, the text the user entered
    validationErrors,   \* RequestForm validationErrors: keys with a message
    touchedFields,      \* RequestForm touchedFields
    isSubmitting,       \* RequestForm isSubmitting
    existingRequest,    \* id of the request being edited, or NoRequestId
    submitted,          \* the payload last handed to the persistence API
    edits,              \* number of change events so far
    \* ---- App.tsx (frontend) ------------------------------------------
    extractedData,      \* the extraction shown for confirmation
    creatingRequest,    \* App creatingRequest
    \* ---- extraction and classification pipeline (backend) ------------
    extraction,         \* one run of the structured extraction engine
    classification,     \* one call of the commodity classifier
    \* ---- create-request dialog and PDF upload ------------------------
    isDialogOpen,       \* Index isDialogOpen
    showForm,           \* CreateRequestDialog showForm
    dialogData,         \* CreateRequestDialog extractedData: the upload it
                        \* came from, or NoUpload
    isProcessing,       \* PDFDropZone isProcessing (of the mounted drop zone)
    uploading,          \* PDFUpload uploading
    uploadError,        \* PDFUpload error is set
    uploads,            \* per upload: "none", "live" (its drop zone is
                        \* mounted), "orphan" (drop zone unmounted),
                        \* "cancelled" (dialog closed meanwhile), "done"
    formMounted,        \* the dialog renders RequestForm
    formPrefill,        \* the upload whose data initialised that form
    lastUpload,         \* outcome of the latest upload
    \* ---- request list, board and details dialog ----------------------
    fetches,            \* the GET /requests calls: state and response of each
    isLoading,          \* Index isLoading / App loading
    selectedRequest,    \* KanbanBoard selectedRequest (id), or NoRequestId
    showDeleteConfirm,  \* RequestDetailsDialog showDeleteConfirm
    isDeleting,         \* RequestDetailsDialog isDeleting
    deleteCalls,        \* the DELETE calls in flight (request ids)
    lastDrop,           \* the latest drop event on a board
    statusCalls,        \* number of PATCH /status calls issued
    \* ---- request form, continued -------------------------------------
    submitsInFlight,    \* createRequest / updateRequest calls not yet settled
    lastSettle,         \* how the latest such call ended, and what followed
    commodityGroups,    \* RequestForm commodityGroups (ids of the loaded taxonomy)
    isLoadingGroups     \* RequestForm isLoadingGroups

validateVars == <<input, fn, args, result>>
workflowVars == <<db, status_history, clock, requests, draggedRequestId, lastCall>>
formVars     == <<formData, typed, validationErrors, touchedFields, isSubmitting,
                 existingRequest, submitted, edits, extractedData, creatingRequest>>
pipelineVars == <<extraction, classification>>
dialogVars   == <<isDialogOpen, showForm, dialogData, isProcessing, uploading,
                 uploadError, uploads, formMounted, formPrefill, lastUpload>>
boardVars    == <<fetches, isLoading, selectedRequest, showDeleteConfirm, isDeleting,
                 deleteCalls, lastDrop, statusCalls>>
formAuxVars  == <<submitsInFlight, lastSettle, commodityGroups, isLoadingGroups>>
uiVars       == <<boardVars, formAuxVars>>
vars         == <<app, validateVars, workflowVars, formVars, pipelineVars, dialogVars,
                 uiVars>>

Null      == "null"          \* JavaScript null / SQL NULL
Undefined == "undefined"     \* an absent optional property

Min(a, b) == IF a < b THEN a ELSE b

(***************************************************************************)
(* Characters                                                              *)
(***************************************************************************)
LowerSeq == <<"a", "d", "e", "m", "o", "p", "q", "t", "u", "x", "y", "z">>
UpperSeq == <<"A", "D", "E", "M", "O", "P", "Q", "T", "U", "X", "Y", "Z">>
Lower    == {LowerSeq[i] : i \in 1..Len(LowerSeq)}
Upper    == {UpperSeq[i] : i \in 1..Len(UpperSeq)}
Digits   == {"0", "1", "2", "3", "4", "5", "6", "7", "8", "9"}
\* what String.prototype.trim and the regex class \s treat as white space
Whitespace == {" ", "\t"}

\* String.prototype.toUpperCase, one character
toUpperChar(c) ==
    IF c \in Lower
    THEN UpperSeq[CHOOSE i \in 1..Len(LowerSeq) : LowerSeq[i] = c]
    ELSE c

toUpperCase(s) == [i \in 1..Len(s) |-> toUpperChar(s[i])]

RECURSIVE trimStart(_)
trimStart(s) ==
    IF s # <<>> /\ Head(s) \in Whitespace THEN trimStart(Tail(s)) ELSE s

RECURSIVE trimEnd(_)
trimEnd(s) ==
    IF s # <<>> /\ s[Len(s)] \in Whitespace
    THEN trimEnd(SubSeq(s, 1, Len(s) - 1))
    ELSE s

\* String.prototype.trim
trim(s) == trimEnd(trimStart(s))

\* s.substring(0, n)
substring0(s, n) == SubSeq(s, 1, Min(n, Len(s)))

\* s.replace(/[...]/g, '') : every character of the class removed
removeAll(s, class) == SelectSeq(s, LAMBDA c : c \notin class)

(***************************************************************************)
(* lib/validation.ts                                                       *)
(***************************************************************************)
\* the entities table of sanitizeText
entities(c) ==
    CASE c = "&"  -> <<"&", "a", "m", "p", ";">>
      [] c = "\"" -> <<"&", "q", "u", "o", "t", ";">>
      [] c = "'"  -> <<"&", "#", "x", "2", "7", ";">>
      [] OTHER    -> <<c>>

RECURSIVE escapeEntities(_)
\* s.replace(/[&"']/g, match => entities[match]): every character replaced
\* in place, left to right (the two halves are escaped independently)
escapeEntities(s) ==
    IF s = <<>> THEN <<>>
    ELSE IF Len(s) = 1 THEN entities(s[1])
    ELSE LET h == Len(s) \div 2 IN
         escapeEntities(SubSeq(s, 1, h)) \o escapeEntities(SubSeq(s, h + 1, Len(s)))

sanitizeTextNoTrim(s) == escapeEntities(removeAll(s, {"<", ">"}))

sanitizeText(s) == trim(escapeEntities(removeAll(s, {"<", ">"})))

ValidationResultNoError(ok, err, value) ==
    [isValid |-> ok, error |-> Undefined, sanitizedValue |-> value]

\* a ValidationResult; error is Undefined when the property is absent
ValidationResult(ok, err, value) ==
    [isValid |-> ok, error |-> err, sanitizedValue |-> value]

validateTextLengthStrict(value, maxLength, fieldName) ==
    LET sanitized == sanitizeText(value) IN
    IF Len(sanitized) = 0
    THEN ValidationResult(FALSE, fieldName \o " is required", sanitized)
    ELSE IF Len(sanitized) >= maxLength
    THEN ValidationResult(FALSE,
                          fieldName \o " must be " \o ToString(maxLength) \o " characters or less",
                          substring0(sanitized, maxLength))
    ELSE ValidationResult(TRUE, Undefined, sanitized)

validateTextLength(value, maxLength, fieldName) ==
    LET sanitized == sanitizeText(value) IN
    IF Len(sanitized) = 0
    THEN ValidationResult(FALSE, fieldName \o " is required", sanitized)
    ELSE IF Len(sanitized) > maxLength
    THEN ValidationResult(FALSE,
                          fieldName \o " must be " \o ToString(maxLength) \o " characters or less",
                          substring0(sanitized, maxLength))
    ELSE ValidationResult(TRUE, Undefined, sanitized)

VatMinLetters == 2
VatMaxLetters == 4
VatMinDigits  == 8
VatMaxDigits  == 12

vatPatternShort(s) ==
    \E k \in VatMinLetters..(VatMaxLetters - 1) :
        /\ Len(s) - k \in VatMinDigits..VatMaxDigits
        /\ \A i \in 1..k : s[i] \in Upper
        /\ \A i \in (k + 1)..Len(s) : s[i] \in Digits

\* /^[A-Z]{2,4}[0-9]{8,12}$/.test(s)
vatPattern(s) ==
    \E k \in VatMinLetters..VatMaxLetters :
        /\ Len(s) - k \in VatMinDigits..VatMaxDigits
        /\ \A i \in 1..k : s[i] \in Upper
        /\ \A i \in (k + 1)..Len(s) : s[i] \in Digits

validateVatId(vatId) ==
    LET sanitized  == sanitizeText(vatId)
        upperCased == toUpperCase(sanitized)
    IN
    IF Len(sanitized) = 0
    THEN ValidationResult(FALSE, "VAT ID is required", sanitized)
    ELSE IF ~vatPattern(upperCased)
    THEN ValidationResult(FALSE, "VAT ID must be 2-4 letters followed by 8-12 digits",
                          upperCased)
    ELSE ValidationResult(TRUE, Undefined, upperCased)

DEPARTMENT == 50

\* the character class [A-Za-z\s\-&.()]
DepartmentClass == Lower \cup Upper \cup Whitespace \cup {"-", "&", ".", "(", ")"}

\* /^[A-Za-z\s\-&.()]+$/.test(s)
departmentPattern(s) ==
    Len(s) >= 1 /\ \A i \in 1..Len(s) : s[i] \in DepartmentClass

validateDepartment(department) ==
    LET sanitized == sanitizeText(department) IN
    IF Len(sanitized) = 0
    THEN ValidationResult(FALSE, "Department is required", sanitized)
    ELSE IF ~departmentPattern(sanitized)
    THEN ValidationResult(FALSE, "Department can only contain letters, spaces, hyphens, and common punctuation",
                          SelectSeq(sanitized, LAMBDA c : c \in DepartmentClass))
    ELSE IF Len(sanitized) > DEPARTMENT
    THEN ValidationResult(FALSE, "Department must be 50 characters or less",
                          substring0(sanitized, DEPARTMENT))
    ELSE ValidationResult(TRUE, Undefined, sanitized)

(***************************************************************************)
(* Validator harness: one raw input, one validator applied to it.          *)
(***************************************************************************)
MaxLen        == 3      \* longest enumerated raw string
MaxVatLetters == 5      \* longest letter run of a generated VAT-like input
MaxVatDigits  == 13     \* longest digit run of a generated VAT-like input

\* the characters raw inputs are built from
Chars == {"<", ">", "&", "\"", "'", " ", "a", ";"}

StringsUpTo(n) == UNION {[1..k -> Chars] : k \in 0..n}

Rep(c, n) == [i \in 1..n |-> c]

\* VAT-like inputs: a run of letters, a run of digits, odd characters around
VatLikeInputs ==
    { h \o Rep(l, k) \o Rep("1", m) \o t :
        h \in {<<>>, <<" ">>, <<"<">>},
        l \in {"d", "E"},
        k \in 0..MaxVatLetters,
        m \in 0..MaxVatDigits,
        t \in {<<>>, <<" ">>, <<"x">>, <<"&">>} }

Example_de123456789 == <<"d", "e", "1", "2", "3", "4", "5", "6", "7", "8", "9">>
Example_XYZ12       == <<"X", "Y", "Z", "1", "2">>
Example_QandA       == <<"Q", "&", "A">>

ValidateInputs ==
    StringsUpTo(MaxLen) \cup VatLikeInputs \cup {Example_de123456789, Example_XYZ12, Example_QandA}

\* no other argument
NoArgs == [maxLength |-> 0, min |-> 0, max |-> 0]

ValidateIdle == input = <<>> /\ fn = "none" /\ args = NoArgs /\ result = Null

ApplySanitizeText ==
    /\ fn = "none"
    /\ fn' = "sanitizeText"
    /\ result' = sanitizeText(input)
    /\ UNCHANGED <<app, uiVars, pipelineVars, dialogVars, input, args, workflowVars, formVars>>

ApplyValidateVatId ==
    /\ fn = "none"
    /\ fn' = "validateVatId"
    /\ result' = validateVatId(input)
    /\ UNCHANGED <<app, uiVars, pipelineVars, dialogVars, input, args, workflowVars, formVars>>

ApplyValidateDepartment ==
    /\ fn = "none"
    /\ fn' = "validateDepartment"
    /\ result' = validateDepartment(input)
    /\ UNCHANGED <<app, uiVars, pipelineVars, dialogVars, input, args, workflowVars, formVars>>

(***************************************************************************)
(* Status workflow.  The backend (PATCH /requests/{id}/status, the tables  *)
(* of plan.md) and the clients that call it: KanbanBoard (portal),         *)
(* RequestsKanban and RequestsTable (frontend), RequestDetailsDialog.      *)
(***************************************************************************)
MaxRequests == 2        \* requests ever created
MaxClock    == 5        \* backend writes (create, transition, update, delete)

RequestIds == 1..MaxRequests
Statuses   == {"Open", "In Progress", "Closed"}
Absent     == "absent"      \* id not yet assigned
Deleted    == "deleted"     \* row deleted

\* the columns of the portal board
Columns == {"open", "in_progress", "closed"}

Exists(id) == db[id].status \in Statuses

\* transitionStatus(current, requested) of the status state machine
transitionStatusReopen(current, requested) ==
    IF current # requested
    THEN [ok |-> TRUE, status |-> requested, error |-> Null]
    ELSE [ok |-> FALSE, status |-> current, error |-> "INVALID_TRANSITION"]

transitionStatusUndoClose(current, requested) ==
    LET allowed == CASE current = "Open"        -> requested \in {"In Progress", "Closed"}
                     [] current = "In Progress" -> requested = "Closed"
                     [] OTHER                   -> requested = "In Progress"
    IN IF allowed
       THEN [ok |-> TRUE, status |-> requested, error |-> Null]
       ELSE [ok |-> FALSE, status |-> current, error |-> "INVALID_TRANSITION"]

transitionStatus(current, requested) ==
    LET allowed == CASE current = "Open"        -> requested \in {"In Progress", "Closed"}
                     [] current = "In Progress" -> requested = "Closed"
                     [] OTHER                   -> FALSE
    IN IF allowed
       THEN [ok |-> TRUE, status |-> requested, error |-> Null]
       ELSE [ok |-> FALSE, status |-> current, error |-> "INVALID_TRANSITION"]

\* one row of status_history
auditEntry(id, old, new, at) ==
    [request_id |-> id, old_status |-> old, new_status |-> new, changed_at |-> at]

\* FOREIGN KEY (request_id) REFERENCES requests(id) ON DELETE CASCADE
cascadeDeleteAll(history, id) == <<>>

cascadeDelete(history, id) == SelectSeq(history, LAMBDA e : e.request_id # id)

\* KanbanBoard.normalizeStatus: status.toLowerCase().replace(/ /g, '_'),
\* on the status strings of either format
normalizeStatus(status) ==
    CASE status \in {"Open", "open"}               -> "open"
      [] status \in {"In Progress", "in_progress"} -> "in_progress"
      [] status \in {"Closed", "closed"}           -> "closed"
      [] OTHER                                     -> status

\* toBackendStatus that sends the column key as it is
toBackendStatusIdentity(status) == status

\* KanbanBoard.toBackendStatus: statusMap[status] || status
toBackendStatus(status) ==
    CASE status = "open"        -> "Open"
      [] status = "in_progress" -> "In Progress"
      [] status = "closed"      -> "Closed"
      [] OTHER                  -> status

\* GET /requests: the rows that exist, with their status
getRequests(table) ==
    [id \in RequestIds |-> IF table[id].status \in Statuses
                           THEN table[id].status ELSE Absent]

\* draggedRequestId when nothing is dragged (null)
NoRequestId == 0

NoCall ==
    [via |-> "none", id |-> NoRequestId, current |-> Null, requested |-> Null,
     ok |-> FALSE, error |-> Null]

WorkflowInit ==
    /\ db = [id \in RequestIds |-> [status |-> Absent, updated_at |-> 0]]
    /\ status_history = <<>>
    /\ clock = 0
    /\ requests = [id \in RequestIds |-> Absent]
    /\ draggedRequestId = NoRequestId
    /\ lastCall = NoCall

\* api.updateStatus(id, status) and the backend's handling of it; on success
\* the caller refreshes its list (onUpdate / onRequestsChange), and that
\* fetch may fail, leaving the list as it was
updateStatus(via, id, status) ==
    IF ~Exists(id)
    THEN /\ lastCall' = [via |-> via, id |-> id, current |-> Null,
                         requested |-> status, ok |-> FALSE, error |-> "NOT_FOUND"]
         /\ UNCHANGED <<db, status_history, clock, requests>>
    ELSE LET t == transitionStatus(db[id].status, status) IN
         /\ lastCall' = [via |-> via, id |-> id, current |-> db[id].status,
                         requested |-> status, ok |-> t.ok, error |-> t.error]
         /\ IF t.ok
            THEN /\ clock < MaxClock
                 /\ clock' = clock + 1
                 /\ db' = [db EXCEPT ![id] = [status |-> t.status, updated_at |-> clock + 1]]
                 /\ status_history' =
                        Append(status_history,
                               auditEntry(id, db[id].status, t.status, clock + 1))
                 /\ requests' \in {getRequests(db'), requests}
            ELSE UNCHANGED <<db, status_history, clock, requests>>

\* POST /requests: a new row, status DEFAULT 'Open'; the list is refreshed
CreateRequest ==
    /\ clock < MaxClock
    /\ \E id \in RequestIds :
        /\ db[id].status = Absent
        /\ \A j \in RequestIds : j < id => db[j].status # Absent
        /\ clock' = clock + 1
        /\ db' = [db EXCEPT ![id] = [status |-> "Open", updated_at |-> clock + 1]]
        /\ requests' \in {getRequests(db'), requests}
    /\ UNCHANGED <<status_history, draggedRequestId, lastCall>>
    /\ UNCHANGED <<app, uiVars, pipelineVars, dialogVars, validateVars, formVars>>

\* PUT /requests/{id} with a RequestUpdate (which carries no status)
UpdateRequest ==
    /\ app = "portal"
    /\ clock < MaxClock
    /\ \E id \in RequestIds :
        /\ requests[id] # Absent
        /\ Exists(id)
        /\ clock' = clock + 1
        /\ db' = [db EXCEPT ![id].updated_at = clock + 1]
        /\ requests' \in {getRequests(db'), requests}
    /\ UNCHANGED <<status_history, draggedRequestId, lastCall>>
    /\ UNCHANGED <<app, uiVars, pipelineVars, dialogVars, validateVars, formVars>>

\* RequestDetailsDialog.handleDelete: DELETE /requests/{id}
DeleteRequest ==
    /\ app = "portal"
    /\ clock < MaxClock
    /\ \E id \in RequestIds :
        /\ requests[id] # Absent
        /\ Exists(id)
        /\ clock' = clock + 1
        /\ db' = [db EXCEPT ![id] = [status |-> Deleted, updated_at |-> clock + 1]]
        /\ status_history' = cascadeDelete(status_history, id)
        /\ requests' \in {getRequests(db'), requests}
    /\ UNCHANGED <<draggedRequestId, lastCall>>
    /\ UNCHANGED <<app, uiVars, pipelineVars, dialogVars, validateVars, formVars>>

\* Index.fetchRequests / App.loadRequests (refresh)
FetchRequests ==
    /\ requests' = getRequests(db)
    /\ requests' # requests
    /\ UNCHANGED <<db, status_history, clock, draggedRequestId, lastCall>>
    /\ UNCHANGED <<app, uiVars, pipelineVars, dialogVars, validateVars, formVars>>

\* KanbanBoard.handleDragStart
PortalDragStart ==
    /\ app = "portal"
    /\ \E id \in RequestIds :
        /\ requests[id] # Absent
        /\ draggedRequestId' = id
    /\ UNCHANGED <<db, status_history, clock, requests, lastCall>>
    /\ UNCHANGED <<app, uiVars, pipelineVars, dialogVars, validateVars, formVars>>

\* KanbanBoard.handleDragEnd
PortalDragEnd ==
    /\ app = "portal"
    /\ draggedRequestId # NoRequestId
    /\ draggedRequestId' = NoRequestId
    /\ UNCHANGED <<db, status_history, clock, requests, lastCall>>
    /\ UNCHANGED <<app, uiVars, pipelineVars, dialogVars, validateVars, formVars>>

\* KanbanBoard.handleDrop, with handleStatusChange
PortalDrop ==
    /\ app = "portal"
    /\ draggedRequestId # NoRequestId
    /\ requests[draggedRequestId] # Absent
    /\ \E newStatus \in Columns :
        /\ normalizeStatus(requests[draggedRequestId]) # newStatus
        /\ updateStatus("handleDrop", draggedRequestId, toBackendStatus(newStatus))
    /\ draggedRequestId' = NoRequestId
    /\ UNCHANGED <<app, uiVars, pipelineVars, dialogVars, validateVars, formVars>>

\* RequestsKanban.handleDragEnd: dropped on a column, or on a card (whose
\* column then is the target)
KanbanDragEnd ==
    /\ app = "frontend"
    /\ \E active \in RequestIds :
        /\ requests[active] # Absent
        /\ \/ \E over \in Statuses :
                /\ requests[active] # over
                /\ updateStatus("handleDragEnd", active, over)
           \/ \E over \in RequestIds :
                /\ requests[over] # Absent
                /\ requests[active] # requests[over]
                /\ updateStatus("handleDragEnd", active, requests[over])
    /\ UNCHANGED draggedRequestId
    /\ UNCHANGED <<app, uiVars, pipelineVars, dialogVars, validateVars, formVars>>

\* RequestsTable.handleStatusChange: the status select of a row
TableStatusChange ==
    /\ app = "frontend"
    /\ \E id \in RequestIds, newStatus \in Statuses :
        /\ requests[id] # Absent
        /\ requests[id] # newStatus
        /\ updateStatus("select", id, newStatus)
    /\ UNCHANGED draggedRequestId
    /\ UNCHANGED <<app, uiVars, pipelineVars, dialogVars, validateVars, formVars>>

(***************************************************************************)
(* Numbers.  unit_price and amount are held in hundredths; a total_price   *)
(* or total_cost, being a product of two of them, in ten-thousandths.      *)
(***************************************************************************)
Scale == 10 * 10

DigitSeq == <<"0", "1", "2", "3", "4", "5", "6", "7", "8", "9">>
DigitValue(c) == (CHOOSE i \in 1..Len(DigitSeq) : DigitSeq[i] = c) - 1

RECURSIVE digitRun(_)
\* the longest prefix of s made of digits
digitRun(s) ==
    IF s # <<>> /\ Head(s) \in Digits THEN <<Head(s)>> \o digitRun(Tail(s)) ELSE <<>>

RECURSIVE digitsValue(_)
digitsValue(ds) ==
    IF ds = <<>> THEN 0
    ELSE 10 * digitsValue(SubSeq(ds, 1, Len(ds) - 1)) + DigitValue(ds[Len(ds)])

NaN == [nan |-> TRUE, value |-> 0]
Num(n) == [nan |-> FALSE, value |-> n]

\* parseFloat(s), in hundredths: leading white space, a sign, digits, a
\* fraction; anything after is ignored; no digit at all gives NaN.
\* (Inputs carry at most two decimals and no exponent.)
parseFloat(s) ==
    LET t        == trimStart(s)
        negative == t # <<>> /\ Head(t) = "-"
        signed   == t # <<>> /\ Head(t) \in {"-", "+"}
        body     == IF signed THEN Tail(t) ELSE t
        int      == digitRun(body)
        rest     == SubSeq(body, Len(int) + 1, Len(body))
        frac     == IF rest # <<>> /\ Head(rest) = "." THEN digitRun(Tail(rest)) ELSE <<>>
        frac2    == SubSeq(frac \o <<"0", "0">>, 1, 2)
        mag      == digitsValue(int) * Scale + digitsValue(frac2)
    IN IF int = <<>> /\ frac = <<>> THEN NaN
       ELSE Num(IF negative THEN 0 - mag ELSE mag)

RECURSIVE digitsOf(_)
digitsOf(n) ==
    IF n < 10 THEN <<DigitSeq[n + 1]>>
    ELSE digitsOf(n \div 10) \o <<DigitSeq[(n % 10) + 1]>>

\* Number.prototype.toString of a number held in hundredths
numberToString(c) ==
    LET mag  == IF c < 0 THEN 0 - c ELSE c
        sign == IF c < 0 THEN <<"-">> ELSE <<>>
        frac == mag % Scale
    IN sign \o digitsOf(mag \div Scale) \o
       (IF frac = 0 THEN <<>>
        ELSE IF frac % 10 = 0 THEN <<".", DigitSeq[(frac \div 10) + 1]>>
        ELSE <<".", DigitSeq[(frac \div 10) + 1], DigitSeq[(frac % 10) + 1]>>)

\* VALIDATION_LIMITS
REQUESTOR_NAME       == 100
TITLE                == 200
VENDOR_NAME          == 100
POSITION_DESCRIPTION == 500
UNIT                 == 20
MAX_PRICE            == 1000000
MAX_QUANTITY         == 10000

validateNumericInputNoClamp(value, fieldName, min, max) ==
    LET numValue == parseFloat(value) IN
    IF numValue.nan
    THEN ValidationResult(FALSE, fieldName \o " must be a valid number", 0)
    ELSE IF numValue.value < min * Scale
    THEN ValidationResult(FALSE, fieldName \o " must be at least " \o ToString(min),
                          numValue.value)
    ELSE IF numValue.value > max * Scale
    THEN ValidationResult(FALSE, fieldName \o " cannot exceed " \o ToString(max), max * Scale)
    ELSE ValidationResult(TRUE, Undefined, numValue.value)

\* min and max are whole numbers; the sanitized value is in hundredths
validateNumericInput(value, fieldName, min, max) ==
    LET numValue == parseFloat(value) IN
    IF numValue.nan
    THEN ValidationResult(FALSE, fieldName \o " must be a valid number", 0)
    ELSE IF numValue.value < min * Scale
    THEN ValidationResult(FALSE, fieldName \o " must be at least " \o ToString(min), min * Scale)
    ELSE IF numValue.value > max * Scale
    THEN ValidationResult(FALSE, fieldName \o " cannot exceed " \o ToString(max), max * Scale)
    ELSE ValidationResult(TRUE, Undefined, numValue.value)

validatePositionDescription(description) ==
    LET sanitized == sanitizeText(description) IN
    IF Len(sanitized) = 0
    THEN ValidationResult(FALSE, "Position description is required", sanitized)
    ELSE IF Len(sanitized) > POSITION_DESCRIPTION
    THEN ValidationResult(FALSE, "Position description must be 500 characters or less",
                          substring0(sanitized, POSITION_DESCRIPTION))
    ELSE ValidationResult(TRUE, Undefined, sanitized)

\* validateUnit that sanitizes as the other text validators do
validateUnitSanitizing(unit) ==
    LET trimmed == sanitizeText(unit) IN
    IF Len(trimmed) = 0
    THEN ValidationResult(FALSE, "Unit is required", trimmed)
    ELSE IF Len(trimmed) > UNIT
    THEN ValidationResult(FALSE, "Unit must be 20 characters or less",
                          substring0(trimmed, UNIT))
    ELSE ValidationResult(TRUE, Undefined, trimmed)

validateUnit(unit) ==
    LET trimmed == trim(unit) IN
    IF Len(trimmed) = 0
    THEN ValidationResult(FALSE, "Unit is required", trimmed)
    ELSE IF Len(trimmed) > UNIT
    THEN ValidationResult(FALSE, "Unit must be 20 characters or less",
                          substring0(trimmed, UNIT))
    ELSE ValidationResult(TRUE, Undefined, trimmed)

(***************************************************************************)
(* RequestForm                                                             *)
(***************************************************************************)
MaxEdits == 2       \* change events (keystrokes, line edits) on the form
MaxLines == 2       \* order lines the form may hold

TextFields == {"requestor_name", "title", "vendor_name", "vat_id", "department"}

\* what a keystroke may append to a text input
FormChars == {"&", "a", " "}

S_a     == <<"a">>
S_pc    == <<"p", "c">>
S_DE    == <<"D", "E", "1", "2", "3", "4", "5", "6", "7", "8", "9">>
S_0_01  == <<"0", ".", "0", "1">>
S_0_5   == <<"0", ".", "5">>
S_2     == <<"2">>
S_neg1  == <<"-", "1">>
S_x     == <<"x">>

\* what the user may enter into a numeric input
NumericInputs == {S_0_01, S_0_5, S_2, S_neg1, S_x, <<>>}

BlankLine ==
    [position_description |-> <<>>, unit_price |-> 0, amount |-> 0, unit |-> <<>>,
     total_price |-> 0, recomputed |-> FALSE]

\* order lines as they arrive from upstream (an extraction, a stored request):
\* 2.00 x 3.00 with the matching total, and with a total that is off by 1.00
LineOK ==
    [position_description |-> S_a, unit_price |-> 2 * Scale, amount |-> 3 * Scale,
     unit |-> S_pc, total_price |-> 6 * Scale * Scale, recomputed |-> FALSE]
LineOff ==
    [position_description |-> S_a, unit_price |-> 2 * Scale, amount |-> 3 * Scale,
     unit |-> S_pc, total_price |-> 5 * Scale * Scale, recomputed |-> FALSE]

\* the auto-calculation of updateOrderLine
lineTotalAccumulate(line) == line.total_price + line.unit_price * line.amount

lineTotal(line) == line.unit_price * line.amount

RECURSIVE sumTotals(_)
sumTotals(lines) ==
    IF lines = <<>> THEN 0 ELSE Head(lines).total_price + sumTotals(Tail(lines))

\* calculateTotal: order_lines.reduce((sum, line) => sum + line.total_price, 0)
calculateTotal(lines) == sumTotals(lines)

\* reconcile(payload): every line total recomputed as updateOrderLine does,
\* then total_cost recomputed as handleSubmit does
reconcile(p) ==
    LET lines == [i \in 1..Len(p.order_lines) |->
                    [p.order_lines[i] EXCEPT !.total_price = lineTotal(p.order_lines[i])]]
    IN [p EXCEPT !.order_lines = lines, !.total_cost = calculateTotal(lines)]

\* an ExtractedData of the portal; absent text is '', absent numbers 0
PortalExtracted(vendor, vat, dept, hasLines, lines, total) ==
    [requestor_name |-> <<>>, title |-> <<>>, vendor_name |-> vendor, vat_id |-> vat,
     requestor_department |-> dept, has_order_lines |-> hasLines,
     order_lines |-> lines, total_cost |-> total, commodity_group |-> 0]

PortalExtractedSamples ==
    { PortalExtracted(S_a, S_DE, S_a, TRUE, <<LineOK>>, 6 * Scale * Scale),
      PortalExtracted(S_a, S_DE, S_a, TRUE, <<LineOff>>, 7 * Scale * Scale),
      PortalExtracted(S_a, <<>>, <<>>, TRUE, <<>>, 0),
      PortalExtracted(<<>>, <<>>, <<>>, FALSE, <<>>, 0),
      [PortalExtracted(S_a, S_DE, S_a, TRUE, <<LineOK>>, 6 * Scale * Scale)
         EXCEPT !.commodity_group = 2] }

\* a stored Request, as the details dialog hands it to the form
ExistingSamples ==
    { [id |-> 1, requestor_name |-> S_a, title |-> S_a, vendor_name |-> S_a,
       vat_id |-> S_DE, department |-> S_a, total_cost |-> 7 * Scale * Scale,
       order_lines |-> <<LineOff>>, commodity_group_id |-> 0],
      [id |-> 2, requestor_name |-> S_a, title |-> S_a, vendor_name |-> S_a,
       vat_id |-> S_DE, department |-> S_a, total_cost |-> 6 * Scale * Scale,
       order_lines |-> <<LineOK>>, commodity_group_id |-> 2] }

\* useState<RequestCreate>(() => ...) with existingRequest
formDataOfExisting(r) ==
    [requestor_name |-> r.requestor_name, title |-> r.title,
     vendor_name |-> r.vendor_name, vat_id |-> r.vat_id, department |-> r.department,
     total_cost |-> r.total_cost,
     order_lines |-> IF Len(r.order_lines) > 0 THEN r.order_lines ELSE <<BlankLine>>,
     commodity_group_id |-> r.commodity_group_id]

\* useState<RequestCreate>(() => ...) with extractedData: `x || default`
formDataOfExtracted(e) ==
    [requestor_name |-> e.requestor_name, title |-> e.title,
     vendor_name |-> e.vendor_name, vat_id |-> e.vat_id,
     department |-> e.requestor_department, total_cost |-> e.total_cost,
     order_lines |-> IF e.has_order_lines THEN e.order_lines ELSE <<BlankLine>>,
     commodity_group_id |-> e.commodity_group]

\* no extractedData, no existingRequest
BlankForm ==
    [requestor_name |-> <<>>, title |-> <<>>, vendor_name |-> <<>>, vat_id |-> <<>>,
     department |-> <<>>, total_cost |-> 0, order_lines |-> <<BlankLine>>,
     commodity_group_id |-> 0]

typedOf(f) == [k \in TextFields |-> f[k]]

NothingSubmitted == [via |-> "none", data |-> BlankForm]

NoExtractedData ==
    [present |-> FALSE, vendor_name |-> <<>>, vat_id |-> <<>>, department |-> <<>>,
     order_lines |-> <<>>, total_cost |-> 0]

FormStart(f, existingId) ==
    /\ formData = f
    /\ typed = typedOf(f)
    /\ validationErrors = {}
    /\ touchedFields = {}
    /\ isSubmitting = FALSE
    /\ existingRequest = existingId
    /\ submitted = NothingSubmitted
    /\ edits = 0
    /\ extractedData = NoExtractedData
    /\ creatingRequest = FALSE

FormIdle == FormStart(BlankForm, NoRequestId)

FormInit ==
    \/ FormStart(BlankForm, NoRequestId)
    \/ \E e \in PortalExtractedSamples : FormStart(formDataOfExtracted(e), NoRequestId)
    \/ \E r \in ExistingSamples : FormStart(formDataOfExisting(r), r.id)

\* the validator the form attaches to a text field
fieldValidator(field, value) ==
    CASE field = "requestor_name" -> validateTextLength(value, REQUESTOR_NAME, field)
      [] field = "title"          -> validateTextLength(value, TITLE, field)
      [] field = "vendor_name"    -> validateTextLength(value, VENDOR_NAME, field)
      [] field = "vat_id"         -> validateVatId(value)
      [] field = "department"     -> validateDepartment(value)

\* the maxLength attribute of the field's input (vat_id has none)
withinMaxLength(field, value) ==
    CASE field = "requestor_name" -> Len(value) <= REQUESTOR_NAME
      [] field = "title"          -> Len(value) <= TITLE
      [] field = "vendor_name"    -> Len(value) <= VENDOR_NAME
      [] field = "vat_id"         -> TRUE
      [] field = "department"     -> Len(value) <= DEPARTMENT

\* the new set of keys with a non-empty message after setting key's message
setError(errors, key, isValid) ==
    IF isValid THEN errors \ {key} ELSE errors \cup {key}

\* handleFieldChange -> validateAndUpdateField: the input shows
\* formData[field]; the user appends one character to it
HandleFieldChange ==
    /\ app = "portal"
    /\ edits < MaxEdits
    /\ \E field \in TextFields, c \in FormChars :
        LET value == Append(formData[field], c)
            res   == fieldValidator(field, value)
        IN /\ withinMaxLength(field, value)
           /\ touchedFields' = touchedFields \cup {<<field>>}
           /\ validationErrors' = setError(validationErrors, <<field>>, res.isValid)
           /\ formData' = [formData EXCEPT ![field] = res.sanitizedValue]
           /\ typed' = [typed EXCEPT ![field] = Append(typed[field], c)]
    /\ edits' = edits + 1
    /\ UNCHANGED <<isSubmitting, existingRequest, extractedData, creatingRequest, submitted>>
    /\ UNCHANGED <<app, uiVars, pipelineVars, dialogVars, validateVars, workflowVars>>

AddOrderLine ==
    /\ app = "portal"
    /\ edits < MaxEdits
    /\ Len(formData.order_lines) < MaxLines
    /\ formData' = [formData EXCEPT !.order_lines = Append(@, BlankLine)]
    /\ edits' = edits + 1
    /\ UNCHANGED <<typed, validationErrors, touchedFields, isSubmitting,
                   existingRequest, extractedData, creatingRequest, submitted>>
    /\ UNCHANGED <<app, uiVars, pipelineVars, dialogVars, validateVars, workflowVars>>

\* the remove button of a line is disabled while the form holds one line
RemoveOrderLine ==
    /\ app = "portal"
    /\ edits < MaxEdits
    /\ Len(formData.order_lines) # 1
    /\ \E index \in 1..Len(formData.order_lines) :
        formData' = [formData EXCEPT !.order_lines =
                        [i \in 1..(Len(@) - 1) |-> IF i < index THEN @[i] ELSE @[i + 1]]]
    /\ edits' = edits + 1
    /\ UNCHANGED <<typed, validationErrors, touchedFields, isSubmitting,
                   existingRequest, extractedData, creatingRequest, submitted>>
    /\ UNCHANGED <<app, uiVars, pipelineVars, dialogVars, validateVars, workflowVars>>

\* updateOrderLine(index, field, value)
updateOrderLine(lines, index, field, value) ==
    LET set == [lines[index] EXCEPT ![field] = value] IN
    [lines EXCEPT ![index] =
        IF field \in {"unit_price", "amount"}
        THEN [set EXCEPT !.total_price = lineTotal(set), !.recomputed = TRUE]
        ELSE set]

\* handleOrderLineChange for the two text inputs of a line
HandleOrderLineText ==
    /\ app = "portal"
    /\ edits < MaxEdits
    /\ \E index \in 1..Len(formData.order_lines),
          field \in {"position_description", "unit"}, c \in FormChars :
        LET value == Append(formData.order_lines[index][field], c)
            res   == IF field = "unit" THEN validateUnit(value)
                     ELSE validatePositionDescription(value)
            key   == <<"orderLine", index, field>>
        IN /\ touchedFields' = touchedFields \cup {key}
           /\ validationErrors' = setError(validationErrors, key, res.isValid)
           /\ formData' = [formData EXCEPT !.order_lines =
                              updateOrderLine(@, index, field, res.sanitizedValue)]
    /\ edits' = edits + 1
    /\ UNCHANGED <<typed, isSubmitting, existingRequest, extractedData, creatingRequest, submitted>>
    /\ UNCHANGED <<app, uiVars, pipelineVars, dialogVars, validateVars, workflowVars>>

\* handleOrderLineChange for unit_price and amount
HandleOrderLineNumber ==
    /\ app = "portal"
    /\ edits < MaxEdits
    /\ \E index \in 1..Len(formData.order_lines),
          field \in {"unit_price", "amount"}, value \in NumericInputs :
        LET res == validateNumericInput(value, field, 0,
                       IF field = "amount" THEN MAX_QUANTITY ELSE MAX_PRICE)
            key == <<"orderLine", index, field>>
        IN /\ touchedFields' = touchedFields \cup {key}
           /\ validationErrors' = setError(validationErrors, key, res.isValid)
           /\ formData' = [formData EXCEPT !.order_lines =
                              updateOrderLine(@, index, field, res.sanitizedValue)]
    /\ edits' = edits + 1
    /\ UNCHANGED <<typed, isSubmitting, existingRequest, extractedData, creatingRequest, submitted>>
    /\ UNCHANGED <<app, uiVars, pipelineVars, dialogVars, validateVars, workflowVars>>

\* validateAllFields: the keys of the fields found invalid
validateAllFields(f) ==
    { <<field>> : field \in {k \in TextFields : ~fieldValidator(k, f[k]).isValid} }
    \cup
    { <<"orderLine", i, "position_description">> :
        i \in {j \in 1..Len(f.order_lines) :
                 ~validatePositionDescription(f.order_lines[j].position_description).isValid} }
    \cup
    { <<"orderLine", i, "unit">> :
        i \in {j \in 1..Len(f.order_lines) : ~validateUnit(f.order_lines[j].unit).isValid} }
    \cup
    { <<"orderLine", i, "unit_price">> :
        i \in {j \in 1..Len(f.order_lines) :
                 ~validateNumericInput(numberToString(f.order_lines[j].unit_price),
                                       "Unit Price", 0, MAX_PRICE).isValid} }
    \cup
    { <<"orderLine", i, "amount">> :
        i \in {j \in 1..Len(f.order_lines) :
                 ~validateNumericInput(numberToString(f.order_lines[j].amount),
                                       "Amount", 0, MAX_QUANTITY).isValid} }

\* ErrorMessage({fieldKey}): TRUE when the message is rendered, FALSE when
\* the component returns null
ErrorMessage(fieldKey) ==
    ~(fieldKey \notin validationErrors \/ fieldKey \notin touchedFields)

\* handleSubmit, up to the await of createRequest / updateRequest; the
\* submit button is disabled while isSubmitting
HandleSubmit ==
    /\ app = "portal"
    /\ ~isSubmitting
    /\ LET errors == validateAllFields(formData) IN
       /\ validationErrors' = errors
       /\ IF errors # {}
          THEN UNCHANGED <<isSubmitting, submitted, submitsInFlight>>
          ELSE /\ isSubmitting' = TRUE
               /\ submitsInFlight' = submitsInFlight + 1
               /\ submitted' =
                    [via |-> IF existingRequest # NoRequestId
                             THEN "updateRequest" ELSE "createRequest",
                     data |-> [formData EXCEPT
                                 !.total_cost = calculateTotal(formData.order_lines)]]
    /\ UNCHANGED <<formData, typed, touchedFields, existingRequest, extractedData,
                   creatingRequest, edits>>
    /\ UNCHANGED <<boardVars, lastSettle, commodityGroups, isLoadingGroups>>
    /\ UNCHANGED <<app, pipelineVars, dialogVars, validateVars, workflowVars>>

\* handleSubmit whose onSuccess has moved into the finally block
SubmitSettledAlwaysOnSuccess ==
    /\ app = "portal"
    /\ isSubmitting
    /\ isSubmitting' = FALSE
    /\ submitsInFlight' = submitsInFlight - 1
    /\ \E ok \in BOOLEAN :
        lastSettle' = [outcome |-> IF ok THEN "success" ELSE "failure",
                       onSuccess |-> TRUE]
    /\ UNCHANGED <<formData, typed, validationErrors, touchedFields, existingRequest,
                   extractedData, creatingRequest, submitted, edits>>
    /\ UNCHANGED <<boardVars, commodityGroups, isLoadingGroups>>
    /\ UNCHANGED <<app, pipelineVars, dialogVars, validateVars, workflowVars>>

\* handleSubmit after the await: on success the toast and onSuccess, on
\* failure the toast; finally setIsSubmitting(false)
SubmitSettled ==
    /\ app = "portal"
    /\ isSubmitting
    /\ isSubmitting' = FALSE
    /\ submitsInFlight' = submitsInFlight - 1
    /\ \E ok \in BOOLEAN :
        lastSettle' = [outcome |-> IF ok THEN "success" ELSE "failure",
                       onSuccess |-> ok]
    /\ UNCHANGED <<formData, typed, validationErrors, touchedFields, existingRequest,
                   extractedData, creatingRequest, submitted, edits>>
    /\ UNCHANGED <<boardVars, commodityGroups, isLoadingGroups>>
    /\ UNCHANGED <<app, pipelineVars, dialogVars, validateVars, workflowVars>>

(***************************************************************************)
(* frontend App.tsx: an extraction is shown, then created as it is         *)
(***************************************************************************)
AppExtracted(vendor, vat, dept, lines, total) ==
    [present |-> TRUE, vendor_name |-> vendor, vat_id |-> vat, department |-> dept,
     order_lines |-> lines, total_cost |-> total]

\* what POST /requests/upload may answer
AppExtractedSamples ==
    { AppExtracted(S_a, S_DE, S_a, <<LineOK>>, 6 * Scale * Scale),
      AppExtracted(S_a, S_DE, S_a, <<LineOK, LineOK>>, 12 * Scale * Scale),
      AppExtracted(S_a, S_DE, S_a, <<LineOK>>, 7 * Scale * Scale),
      AppExtracted(S_a, <<>>, <<>>, <<LineOff>>, 5 * Scale * Scale),
      AppExtracted(S_a, Example_XYZ12, S_a, <<LineOK>>, 6 * Scale * Scale) }

\* handleDataExtracted
HandleDataExtracted ==
    /\ app = "frontend"
    /\ ~creatingRequest
    /\ \E data \in AppExtractedSamples :
        /\ data # extractedData
        /\ extractedData' = data
    /\ UNCHANGED <<formData, typed, validationErrors, touchedFields, isSubmitting,
                   existingRequest, submitted, edits, creatingRequest>>
    /\ UNCHANGED <<app, uiVars, pipelineVars, dialogVars, validateVars, workflowVars>>

\* handleCancelExtracted
HandleCancelExtracted ==
    /\ app = "frontend"
    /\ extractedData.present
    /\ extractedData' = NoExtractedData
    /\ UNCHANGED <<formData, typed, validationErrors, touchedFields, isSubmitting,
                   existingRequest, submitted, edits, creatingRequest>>
    /\ UNCHANGED <<app, uiVars, pipelineVars, dialogVars, validateVars, workflowVars>>

\* the CreateRequestData that handleCreateRequest builds
requestDataOf(e) ==
    [requestor_name |-> <<"Auto-Extracted">>,
     title |-> <<"Request from ">> \o e.vendor_name,
     vendor_name |-> e.vendor_name, vat_id |-> e.vat_id, department |-> e.department,
     total_cost |-> e.total_cost, order_lines |-> e.order_lines,
     commodity_group_id |-> 0]

\* handleCreateRequest, up to the await of createRequest
HandleCreateRequest ==
    /\ app = "frontend"
    /\ ~creatingRequest
    /\ extractedData.present
    /\ creatingRequest' = TRUE
    /\ submitted' = [via |-> "handleCreateRequest", data |-> requestDataOf(extractedData)]
    /\ UNCHANGED <<formData, typed, validationErrors, touchedFields, isSubmitting,
                   existingRequest, edits, extractedData>>
    /\ UNCHANGED <<app, uiVars, pipelineVars, dialogVars, validateVars, workflowVars>>

\* handleCreateRequest after the await: the preview is cleared on success
\* and kept on failure
CreateSettled ==
    /\ app = "frontend"
    /\ creatingRequest
    /\ creatingRequest' = FALSE
    /\ extractedData' \in {NoExtractedData, extractedData}
    /\ UNCHANGED <<formData, typed, validationErrors, touchedFields, isSubmitting,
                   existingRequest, submitted, edits>>
    /\ UNCHANGED <<app, uiVars, pipelineVars, dialogVars, validateVars, workflowVars>>

(***************************************************************************)
(* Structured extraction engine and commodity classifier (backend).        *)
(***************************************************************************)
MaxGroupId == 3         \* largest commodity group id of a taxonomy

\* the five required fields of the confidence heuristic
RequiredFields == {"vendor_name", "vat_id", "department", "total_cost", "order_lines"}

\* an optional field of a parsed model output: absent (null), or a value
OptTexts ==
    { [present |-> FALSE, value |-> <<>>], [present |-> TRUE, value |-> <<>>],
      [present |-> TRUE, value |-> S_a] }

OptTotals ==
    { [present |-> FALSE, value |-> 0], [present |-> TRUE, value |-> 0],
      [present |-> TRUE, value |-> 7 * Scale * Scale] }

\* the parsed outputs that pass schema validation
ParsedOutputs ==
    [vendor_name : OptTexts, vat_id : OptTexts, department : OptTexts,
     total_cost : OptTotals, order_lines : {<<>>, <<LineOK>>, <<LineOK, LineOff>>}]

\* raw model outputs that fail schema validation
MalformedOutputs == {"not json", "order_lines is not a list"}

\* a required field counts when it is present and non-empty
isExtractedIfPresent(e, field) ==
    IF field = "order_lines" THEN TRUE ELSE e[field].present

isExtracted(e, field) ==
    CASE field = "order_lines" -> Len(e.order_lines) >= 1
      [] field = "total_cost"  -> e.total_cost.present
      [] OTHER                 -> e[field].present /\ e[field].value # <<>>

fields_extracted(e) == Cardinality({field \in RequiredFields : isExtracted(e, field)})

\* confidence = fields_extracted / total_required_fields, clamped to [0, 1];
\* in hundredths
confidence(e) ==
    LET c == (fields_extracted(e) * Scale) \div Cardinality(RequiredFields) IN
    IF c < 0 THEN 0 ELSE IF c > Scale THEN Scale ELSE c

NoOutput == "none"

\* no field extracted
NoData ==
    [vendor_name |-> [present |-> FALSE, value |-> <<>>],
     vat_id |-> [present |-> FALSE, value |-> <<>>],
     department |-> [present |-> FALSE, value |-> <<>>],
     total_cost |-> [present |-> FALSE, value |-> 0], order_lines |-> <<>>]

ExtractionIdle ==
    [state |-> "idle", requests |-> 0, schemaFailures |-> 0, corrective |-> FALSE,
     lastResponse |-> "none", error |-> Null, raw |-> NoOutput, data |-> NoData,
     confidence |-> 0]

\* what the engine does with a response that fails schema validation
onSchemaFailureRetryAgain(e, raw) ==
    IF e.schemaFailures <= 1
    THEN [e EXCEPT !.requests = e.requests + 1, !.schemaFailures = e.schemaFailures + 1,
                   !.corrective = TRUE, !.lastResponse = "invalid", !.raw = raw]
    ELSE [e EXCEPT !.state = "failed", !.schemaFailures = e.schemaFailures + 1,
                   !.lastResponse = "invalid", !.error = "EXTRACTION_FAILED",
                   !.raw = raw]

onSchemaFailure(e, raw) ==
    IF e.schemaFailures = 0
    THEN [e EXCEPT !.requests = e.requests + 1, !.schemaFailures = 1,
                   !.corrective = TRUE, !.lastResponse = "invalid", !.raw = raw]
    ELSE [e EXCEPT !.state = "failed", !.schemaFailures = e.schemaFailures + 1,
                   !.lastResponse = "invalid", !.error = "EXTRACTION_FAILED",
                   !.raw = raw]

\* the initial attempt: one completion request is issued
StartExtraction ==
    /\ extraction.state = "idle"
    /\ extraction' = [extraction EXCEPT !.state = "awaiting", !.requests = 1]
    /\ UNCHANGED <<app, uiVars, dialogVars, validateVars, workflowVars, formVars, classification>>

\* the document loader cannot read the file: no completion request is made
UnreadableDocument ==
    /\ extraction.state = "idle"
    /\ extraction' = [extraction EXCEPT !.state = "failed", !.error = "UNREADABLE_DOCUMENT"]
    /\ UNCHANGED <<app, uiVars, dialogVars, validateVars, workflowVars, formVars, classification>>

\* a response that passes schema validation
CompletionValid ==
    /\ extraction.state = "awaiting"
    /\ \E e \in ParsedOutputs :
        extraction' = [extraction EXCEPT !.state = "success", !.lastResponse = "valid",
                                         !.data = e, !.confidence = confidence(e)]
    /\ UNCHANGED <<app, uiVars, dialogVars, validateVars, workflowVars, formVars, classification>>

\* a response that fails schema validation
CompletionInvalid ==
    /\ extraction.state = "awaiting"
    /\ \E raw \in MalformedOutputs : extraction' = onSchemaFailure(extraction, raw)
    /\ UNCHANGED <<app, uiVars, dialogVars, validateVars, workflowVars, formVars, classification>>

\* the completion service does not answer in time
CompletionTimeout ==
    /\ extraction.state = "awaiting"
    /\ extraction' = [extraction EXCEPT !.state = "failed", !.lastResponse = "timeout",
                                        !.error = "EXTRACTION_TIMEOUT"]
    /\ UNCHANGED <<app, uiVars, dialogVars, validateVars, workflowVars, formVars, classification>>

\* commodity_group_id = null
NoGroupId == 0

RejectionMarker == "classification rejected: invalid group id"

\* the taxonomies handed to the classifier (sets of group ids)
Taxonomies == SUBSET (1..MaxGroupId)

\* what the model may answer: an id (in the taxonomy or not), its
\* self-reported confidence in hundredths, a reasoning
ModelResponses ==
    [commodity_group_id : 1..(MaxGroupId + 1), confidence : {0, Scale \div 2, Scale},
     reasoning : {"fits best"}]

classifyTrusting(taxonomy, response) == response

\* the post-condition of the classifier: fail closed on an id outside the
\* supplied taxonomy
classify(taxonomy, response) ==
    IF response.commodity_group_id \in taxonomy
    THEN response
    ELSE [commodity_group_id |-> NoGroupId, confidence |-> 0, reasoning |-> RejectionMarker]

ClassificationIdle ==
    [state |-> "idle", called |-> FALSE, error |-> Null, taxonomy |-> {},
     response |-> [commodity_group_id |-> NoGroupId, confidence |-> 0, reasoning |-> "none"],
     result |-> [commodity_group_id |-> NoGroupId, confidence |-> 0, reasoning |-> "none"]]

PipelineIdle == extraction = ExtractionIdle /\ classification = ClassificationIdle

\* the classifier is called: one completion request is issued
StartClassification ==
    /\ classification.state = "idle"
    /\ \E taxonomy \in Taxonomies :
        classification' = [classification EXCEPT !.state = "awaiting",
                                                 !.taxonomy = taxonomy]
    /\ UNCHANGED <<app, uiVars, dialogVars, validateVars, workflowVars, formVars, extraction>>

\* one classifier call: the completion service answers
Classify ==
    /\ classification.state = "awaiting"
    /\ \E response \in ModelResponses :
        classification' = [classification EXCEPT
                             !.state = "success", !.called = TRUE, !.response = response,
                             !.result = classify(classification.taxonomy, response)]
    /\ UNCHANGED <<app, uiVars, dialogVars, validateVars, workflowVars, formVars, extraction>>

\* the completion service does not answer in time: the call fails, no group
\* is assigned
ClassificationTimeout ==
    /\ classification.state = "awaiting"
    /\ classification' = [classification EXCEPT !.state = "failed",
                                                !.error = "CLASSIFICATION_TIMEOUT"]
    /\ UNCHANGED <<app, uiVars, dialogVars, validateVars, workflowVars, formVars, extraction>>

(***************************************************************************)
(* Create-request dialog (Index, CreateRequestDialog, PDFDropZone) of the  *)
(* portal, and the upload box (PDFUpload) of the frontend App.             *)
(*                                                                         *)
(* Index renders CreateRequestDialog unconditionally, and the dialog's     *)
(* hooks precede its "if (!isOpen) return null": the dialog's state lives  *)
(* on while it is closed.  PDFDropZone and RequestForm are mounted only    *)
(* while the dialog is open and showForm selects them.                     *)
(***************************************************************************)
MaxUploads == 2         \* uploads started in one run

NoUpload == 0           \* useState<ExtractedData | undefined>(): no data

UploadIds == 1..MaxUploads

InFlight == {"live", "orphan", "cancelled"}

\* the next upload, or NoUpload when the bound is used up
nextUpload ==
    IF \E id \in UploadIds : uploads[id] = "none"
    THEN CHOOSE id \in UploadIds :
            /\ uploads[id] = "none"
            /\ \A other \in UploadIds : uploads[other] = "none" => id <= other
    ELSE NoUpload

\* PDFDropZone leaves the tree: its pending uploads go on without it
dropZoneUnmounted(u) ==
    [id \in UploadIds |-> IF u[id] = "live" THEN "orphan" ELSE u[id]]

\* the dialog is closed: every pending upload is one the user walked away from
dialogClosed(u) ==
    [id \in UploadIds |-> IF u[id] \in InFlight THEN "cancelled" ELSE u[id]]

DialogIdle ==
    /\ isDialogOpen = FALSE
    /\ showForm = FALSE
    /\ dialogData = NoUpload
    /\ isProcessing = FALSE
    /\ uploading = FALSE
    /\ uploadError = FALSE
    /\ uploads = [id \in UploadIds |-> "none"]
    /\ formMounted = FALSE
    /\ formPrefill = NoUpload
    /\ lastUpload = "none"

\* Index: NEW REQUEST button.  A dialog left with showForm set renders the
\* form at once, initialised from the dialog's extractedData.
OpenDialog ==
    /\ app = "portal"
    /\ ~isDialogOpen
    /\ isDialogOpen' = TRUE
    /\ formMounted' = showForm
    /\ formPrefill' = IF showForm THEN dialogData ELSE NoUpload
    /\ UNCHANGED <<showForm, dialogData, isProcessing, uploading, uploadError, uploads,
                   lastUpload>>
    /\ UNCHANGED <<app, uiVars, validateVars, workflowVars, formVars, pipelineVars>>

\* resetDialog
resetDialog ==
    /\ dialogData' = NoUpload
    /\ showForm' = FALSE

\* handleClose: onClose(); resetDialog()
HandleClose ==
    /\ app = "portal"
    /\ isDialogOpen
    /\ isDialogOpen' = FALSE
    /\ resetDialog
    /\ formMounted' = FALSE
    /\ formPrefill' = NoUpload
    /\ isProcessing' = FALSE
    /\ uploads' = dialogClosed(uploads)
    /\ UNCHANGED <<uploading, uploadError, lastUpload>>
    /\ UNCHANGED <<app, uiVars, validateVars, workflowVars, formVars, pipelineVars>>

\* ENTER MANUALLY: setShowForm(true)
EnterManually ==
    /\ app = "portal"
    /\ isDialogOpen
    /\ ~showForm
    /\ showForm' = TRUE
    /\ formMounted' = TRUE
    /\ formPrefill' = dialogData
    /\ isProcessing' = FALSE
    /\ uploads' = dropZoneUnmounted(uploads)
    /\ UNCHANGED <<isDialogOpen, dialogData, uploading, uploadError, lastUpload>>
    /\ UNCHANGED <<app, uiVars, validateVars, workflowVars, formVars, pipelineVars>>

\* processFile, up to the await of api.uploadPDF; a file that is not a PDF
\* is refused with a toast.  While isProcessing the drop zone takes no
\* pointer events and its input is disabled.
ProcessFile ==
    /\ app = "portal"
    /\ isDialogOpen
    /\ ~showForm
    /\ ~isProcessing
    /\ nextUpload # NoUpload
    /\ \E isPdf \in BOOLEAN :
        IF isPdf
        THEN /\ isProcessing' = TRUE
             /\ uploads' = [uploads EXCEPT ![nextUpload] = "live"]
             /\ lastUpload' = "pending"
        ELSE UNCHANGED <<isProcessing, uploads, lastUpload>>
    /\ UNCHANGED <<isDialogOpen, showForm, dialogData, uploading, uploadError,
                   formMounted, formPrefill>>
    /\ UNCHANGED <<app, uiVars, validateVars, workflowVars, formVars, pipelineVars>>

\* handleExtract, as the dialog's state setters apply it
handleExtract(id) ==
    /\ dialogData' = id
    /\ showForm' = TRUE
    /\ formMounted' = isDialogOpen
    /\ formPrefill' = IF ~isDialogOpen THEN NoUpload
                      ELSE IF formMounted THEN formPrefill
                      ELSE id

\* processFile after the await, upload and extraction succeeded:
\* onExtract(result.extracted_data), finally setIsProcessing(false)
UploadSucceeded ==
    /\ app = "portal"
    /\ \E id \in UploadIds :
        /\ uploads[id] \in InFlight
        /\ handleExtract(id)
        /\ isProcessing' = FALSE
        /\ uploads' = dropZoneUnmounted([uploads EXCEPT ![id] = "done"])
    /\ lastUpload' = "succeeded"
    /\ UNCHANGED <<isDialogOpen, uploading, uploadError>>
    /\ UNCHANGED <<app, uiVars, validateVars, workflowVars, formVars, pipelineVars>>

\* processFile after the await, upload or extraction failed: toast,
\* finally setIsProcessing(false)
UploadFailed ==
    /\ app = "portal"
    /\ \E id \in UploadIds :
        /\ uploads[id] \in InFlight
        /\ isProcessing' = IF uploads[id] = "live" THEN FALSE ELSE isProcessing
        /\ uploads' = [uploads EXCEPT ![id] = "done"]
    /\ lastUpload' = "failed"
    /\ UNCHANGED <<isDialogOpen, showForm, dialogData, uploading, uploadError,
                   formMounted, formPrefill>>
    /\ UNCHANGED <<app, uiVars, validateVars, workflowVars, formVars, pipelineVars>>

\* handleSuccess, called by the form once it has saved:
\* onSuccess(); onClose(); resetDialog()
HandleSuccess ==
    /\ app = "portal"
    /\ formMounted
    /\ isDialogOpen' = FALSE
    /\ resetDialog
    /\ formMounted' = FALSE
    /\ formPrefill' = NoUpload
    /\ isProcessing' = FALSE
    /\ uploads' = dialogClosed(uploads)
    /\ UNCHANGED <<uploading, uploadError, lastUpload>>
    /\ UNCHANGED <<app, uiVars, validateVars, workflowVars, formVars, pipelineVars>>

\* PDFUpload onDrop, up to the await of uploadPDF; the dropzone is disabled
\* while uploading
OnDrop ==
    /\ app = "frontend"
    /\ ~uploading
    /\ nextUpload # NoUpload
    /\ uploading' = TRUE
    /\ uploadError' = FALSE
    /\ uploads' = [uploads EXCEPT ![nextUpload] = "live"]
    /\ lastUpload' = "pending"
    /\ UNCHANGED <<isDialogOpen, showForm, dialogData, isProcessing, formMounted,
                   formPrefill>>
    /\ UNCHANGED <<app, uiVars, validateVars, workflowVars, formVars, pipelineVars>>

\* onDrop after the await, success: onDataExtracted (handleDataExtracted),
\* finally setUploading(false)
OnDropSucceeded ==
    /\ app = "frontend"
    /\ \E id \in UploadIds :
        /\ uploads[id] = "live"
        /\ uploads' = [uploads EXCEPT ![id] = "done"]
    /\ \E data \in AppExtractedSamples : extractedData' = data
    /\ uploading' = FALSE
    /\ lastUpload' = "succeeded"
    /\ UNCHANGED <<isDialogOpen, showForm, dialogData, isProcessing, uploadError,
                   formMounted, formPrefill>>
    /\ UNCHANGED <<formData, typed, validationErrors, touchedFields, isSubmitting,
                   existingRequest, submitted, edits, creatingRequest>>
    /\ UNCHANGED <<app, uiVars, validateVars, workflowVars, pipelineVars>>

\* onDrop whose finally block is missing: the flag stays set after a failure
OnDropFailedNoFinally ==
    /\ app = "frontend"
    /\ \E id \in UploadIds :
        /\ uploads[id] = "live"
        /\ uploads' = [uploads EXCEPT ![id] = "done"]
    /\ uploadError' = TRUE
    /\ lastUpload' = "failed"
    /\ UNCHANGED <<isDialogOpen, showForm, dialogData, isProcessing, uploading,
                   formMounted, formPrefill>>
    /\ UNCHANGED <<app, uiVars, validateVars, workflowVars, formVars, pipelineVars>>

\* onDrop after the await, failure: setError, finally setUploading(false)
OnDropFailed ==
    /\ app = "frontend"
    /\ \E id \in UploadIds :
        /\ uploads[id] = "live"
        /\ uploads' = [uploads EXCEPT ![id] = "done"]
    /\ uploadError' = TRUE
    /\ uploading' = FALSE
    /\ lastUpload' = "failed"
    /\ UNCHANGED <<isDialogOpen, showForm, dialogData, isProcessing, formMounted,
                   formPrefill>>
    /\ UNCHANGED <<app, uiVars, validateVars, workflowVars, formVars, pipelineVars>>

(***************************************************************************)
(* Validator harness, continued: the validators with further arguments,    *)
(* inputs around the length limits, and numeric inputs.                    *)
(***************************************************************************)
MaxMaxLength == 3       \* largest maxLength handed to validateTextLength
MaxMax       == 2       \* largest max (and min) handed to validateNumericInput

\* inputs just below, at and above each length limit, ending in a character
\* that is allowed, one that is not, or one that is escaped
LongInputs ==
    { Rep("a", n) \o t :
        n \in {DEPARTMENT - 1, DEPARTMENT, DEPARTMENT + 1, UNIT, UNIT + 1,
               POSITION_DESCRIPTION, POSITION_DESCRIPTION + 1},
        t \in {<<>>, <<"1">>, <<"&">>} }

\* what may reach parseFloat
NumberInputs ==
    NumericInputs \cup
    { <<"0">>, <<"1">>, <<"3">>, <<"2", ".", "5">>, <<" ", "2">>, <<"2", "x">>,
      <<".", "5">>, <<"+", "2">>, <<"-">>, <<"1", ".">>, <<"1", ".", "0", "1">> }

ApplyValidateTextLength ==
    /\ fn = "none"
    /\ \E maxLength \in 1..MaxMaxLength :
        /\ fn' = "validateTextLength"
        /\ args' = [args EXCEPT !.maxLength = maxLength]
        /\ result' = validateTextLength(input, maxLength, "Field")
    /\ UNCHANGED <<app, uiVars, pipelineVars, dialogVars, input, workflowVars, formVars>>

\* (the digit runs of the VAT-like inputs are longer than the model's
\* numbers can hold)
ApplyValidateNumericInput ==
    /\ fn = "none"
    /\ input \in NumberInputs \cup StringsUpTo(MaxLen) \cup LongInputs
    /\ \E min \in 0..MaxMax, max \in 0..MaxMax :
        /\ min <= max
        /\ fn' = "validateNumericInput"
        /\ args' = [args EXCEPT !.min = min, !.max = max]
        /\ result' = validateNumericInput(input, "Field", min, max)
    /\ UNCHANGED <<app, uiVars, pipelineVars, dialogVars, input, workflowVars, formVars>>

ApplyValidatePositionDescription ==
    /\ fn = "none"
    /\ fn' = "validatePositionDescription"
    /\ result' = validatePositionDescription(input)
    /\ UNCHANGED <<app, uiVars, pipelineVars, dialogVars, input, args, workflowVars, formVars>>

ApplyValidateUnit ==
    /\ fn = "none"
    /\ fn' = "validateUnit"
    /\ result' = validateUnit(input)
    /\ UNCHANGED <<app, uiVars, pipelineVars, dialogVars, input, args, workflowVars, formVars>>

(***************************************************************************)
(* The request list of the page (Index.fetchRequests, App.loadRequests):   *)
(* each call of fetchRequests is a GET /requests of its own, read by the   *)
(* backend at some moment and answered at a later one.                     *)
(***************************************************************************)
MaxFetches == 2         \* calls of fetchRequests in one run

FetchIds == 1..MaxFetches

NoResponse == [id \in RequestIds |-> Absent]

NoFetch == [state |-> "none", response |-> NoResponse]

\* no drop event yet
NoDrop == [on |-> "none", id |-> NoRequestId, target |-> Null]

BoardIdle ==
    /\ fetches = [f \in FetchIds |-> NoFetch]
    /\ isLoading = FALSE
    /\ selectedRequest = NoRequestId
    /\ showDeleteConfirm = FALSE
    /\ isDeleting = FALSE
    /\ deleteCalls = <<>>
    /\ lastDrop = NoDrop
    /\ statusCalls = 0

\* the page is mounted: useState(true), and the effect has called
\* fetchRequests
ListMounted ==
    /\ fetches = [f \in FetchIds |-> IF f = 1 THEN [NoFetch EXCEPT !.state = "sent"]
                                     ELSE NoFetch]
    /\ isLoading = TRUE
    /\ selectedRequest = NoRequestId
    /\ showDeleteConfirm = FALSE
    /\ isDeleting = FALSE
    /\ deleteCalls = <<>>
    /\ lastDrop = NoDrop
    /\ statusCalls = 0

FetchPending == {"sent", "served"}

\* the fetch the next call of fetchRequests starts
nextFetch ==
    CHOOSE f \in FetchIds :
        /\ fetches[f].state = "none"
        /\ \A g \in FetchIds : fetches[g].state = "none" => f <= g

\* fetchRequests up to its await: setIsLoading(true), GET /requests
startFetch ==
    /\ \E f \in FetchIds : fetches[f].state = "none"
    /\ fetches' = [fetches EXCEPT ![nextFetch].state = "sent"]
    /\ isLoading' = TRUE

\* fetchRequests is called: by the REFRESH button, which is disabled while
\* isLoading, or by handleSuccess / onUpdate after a create, a status
\* change, a delete or the closing of the details dialog
FetchRequestsStart ==
    /\ \E cause \in {"refresh", "onUpdate"} : cause = "refresh" => ~isLoading
    /\ startFetch
    /\ UNCHANGED <<selectedRequest, showDeleteConfirm, isDeleting, deleteCalls, lastDrop,
                   statusCalls>>
    /\ UNCHANGED <<app, validateVars, workflowVars, formVars, pipelineVars, dialogVars,
                   formAuxVars>>

\* the backend reads the table for one GET /requests
ServeFetch ==
    /\ \E f \in FetchIds :
        /\ fetches[f].state = "sent"
        /\ fetches' = [fetches EXCEPT ![f] = [state |-> "served",
                                              response |-> getRequests(db)]]
    /\ UNCHANGED <<isLoading, selectedRequest, showDeleteConfirm, isDeleting, deleteCalls,
                   lastDrop, statusCalls>>
    /\ UNCHANGED <<app, validateVars, workflowVars, formVars, pipelineVars, dialogVars,
                   formAuxVars>>

\* fetchRequests after the await, success: setRequests(data), finally
\* setIsLoading(false)
FetchSucceeded ==
    /\ \E f \in FetchIds :
        /\ fetches[f].state = "served"
        /\ fetches' = [fetches EXCEPT ![f].state = "done"]
        /\ requests' = fetches[f].response
    /\ isLoading' = FALSE
    /\ UNCHANGED <<selectedRequest, showDeleteConfirm, isDeleting, deleteCalls, lastDrop,
                   statusCalls>>
    /\ UNCHANGED <<db, status_history, clock, draggedRequestId, lastCall>>
    /\ UNCHANGED <<app, validateVars, formVars, pipelineVars, dialogVars, formAuxVars>>

\* fetchRequests after the await, failure: toast, finally setIsLoading(false)
FetchFailed ==
    /\ \E f \in FetchIds :
        /\ fetches[f].state \in FetchPending
        /\ fetches' = [fetches EXCEPT ![f].state = "failed"]
    /\ isLoading' = FALSE
    /\ UNCHANGED <<selectedRequest, showDeleteConfirm, isDeleting, deleteCalls, lastDrop,
                   statusCalls>>
    /\ UNCHANGED <<app, validateVars, workflowVars, formVars, pipelineVars, dialogVars,
                   formAuxVars>>

\* the backend commits a write between two reads: a POST /requests, or a
\* PATCH /status that the state machine accepts
BackendWrite ==
    /\ clock < MaxClock
    /\ clock' = clock + 1
    /\ \E id \in RequestIds :
        \/ /\ db[id].status = Absent
           /\ \A j \in RequestIds : j < id => db[j].status # Absent
           /\ db' = [db EXCEPT ![id] = [status |-> "Open", updated_at |-> clock + 1]]
           /\ UNCHANGED status_history
        \/ /\ Exists(id)
           /\ \E status \in Statuses :
                LET t == transitionStatus(db[id].status, status) IN
                /\ t.ok
                /\ db' = [db EXCEPT ![id] = [status |-> t.status,
                                             updated_at |-> clock + 1]]
                /\ status_history' =
                       Append(status_history,
                              auditEntry(id, db[id].status, t.status, clock + 1))
    /\ UNCHANGED <<requests, draggedRequestId, lastCall>>
    /\ UNCHANGED <<app, uiVars, validateVars, formVars, pipelineVars, dialogVars>>

(***************************************************************************)
(* A drop on a board, the whole handler: KanbanBoard.handleDrop of the     *)
(* portal and RequestsKanban.handleDragEnd of the frontend.                *)
(***************************************************************************)
MaxStatusCalls == 3     \* PATCH /status calls issued in one run

\* handleDrop(e, newStatus): a drop on a column (a card lies inside its
\* column, whose onDrop handles the drop).  Returns early with nothing
\* dragged, with a dragged id the list does not hold, or on the card's own
\* column; otherwise handleStatusChange, then setDraggedRequestId(null).
HandleDrop ==
    /\ app = "portal"
    /\ statusCalls < MaxStatusCalls
    /\ \E newStatus \in Columns :
        /\ lastDrop' = [on |-> "handleDrop", id |-> draggedRequestId, target |-> newStatus]
        /\ IF \/ draggedRequestId = NoRequestId
              \/ requests[draggedRequestId] = Absent
              \/ normalizeStatus(requests[draggedRequestId]) = newStatus
           THEN UNCHANGED <<workflowVars, statusCalls>>
           ELSE /\ updateStatus("handleDrop", draggedRequestId,
                                toBackendStatus(newStatus))
                /\ statusCalls' = statusCalls + 1
                /\ draggedRequestId' = NoRequestId
    /\ UNCHANGED <<fetches, isLoading, selectedRequest, showDeleteConfirm, isDeleting,
                   deleteCalls>>
    /\ UNCHANGED <<app, validateVars, formVars, pipelineVars, dialogVars, formAuxVars>>

\* what a dragged card may be over when it is released: nothing, a column,
\* a card
DropTargets ==
    {[kind |-> "none", status |-> Null, id |-> NoRequestId]}
    \cup {[kind |-> "column", status |-> st, id |-> NoRequestId] : st \in Statuses}
    \cup {[kind |-> "card", status |-> Null, id |-> c] : c \in RequestIds}

\* handleDragEnd(event): the target status is the column dropped on, or the
\* column of the card dropped on; returns early without a target, with an
\* active id the list does not hold, or on the card's own column
HandleDragEnd ==
    /\ app = "frontend"
    /\ statusCalls < MaxStatusCalls
    /\ \E active \in RequestIds, over \in DropTargets :
        LET newStatus ==
                CASE over.kind = "column" -> over.status
                  [] over.kind = "card" /\ requests[over.id] # Absent -> requests[over.id]
                  [] OTHER -> Null
        IN
        /\ over.kind = "card" => requests[over.id] # Absent
        /\ lastDrop' = [on |-> "handleDragEnd", id |-> active, target |-> newStatus]
        /\ IF \/ over.kind = "none"
              \/ newStatus = Null
              \/ requests[active] = Absent
              \/ requests[active] = newStatus
           THEN UNCHANGED <<workflowVars, statusCalls>>
           ELSE /\ updateStatus("handleDragEnd", active, newStatus)
                /\ statusCalls' = statusCalls + 1
                /\ UNCHANGED draggedRequestId
    /\ UNCHANGED <<fetches, isLoading, selectedRequest, showDeleteConfirm, isDeleting,
                   deleteCalls>>
    /\ UNCHANGED <<app, validateVars, formVars, pipelineVars, dialogVars, formAuxVars>>

(***************************************************************************)
(* RequestForm, continued: the commodity groups it loads and the outcome   *)
(* of its submissions.                                                     *)
(***************************************************************************)
NoSettle == [outcome |-> "none", onSuccess |-> FALSE]

\* the form is mounted: useState([]), useState(true); the effect has
\* called api.getCommodityGroups
FormAuxIdle ==
    /\ submitsInFlight = 0
    /\ lastSettle = NoSettle
    /\ commodityGroups = {}
    /\ isLoadingGroups = TRUE

\* fetchCommodityGroups, success: setCommodityGroups(groups), finally
\* setIsLoadingGroups(false)
GroupsLoaded ==
    /\ app = "portal"
    /\ isLoadingGroups
    /\ \E taxonomy \in Taxonomies : commodityGroups' = taxonomy
    /\ isLoadingGroups' = FALSE
    /\ UNCHANGED <<boardVars, submitsInFlight, lastSettle>>
    /\ UNCHANGED <<app, validateVars, workflowVars, formVars, pipelineVars, dialogVars>>

\* fetchCommodityGroups, failure: toast, finally setIsLoadingGroups(false)
GroupsFailed ==
    /\ app = "portal"
    /\ isLoadingGroups
    /\ isLoadingGroups' = FALSE
    /\ UNCHANGED <<boardVars, submitsInFlight, lastSettle, commodityGroups>>
    /\ UNCHANGED <<app, validateVars, workflowVars, formVars, pipelineVars, dialogVars>>

\* the commodity group Select, disabled while isLoadingGroups: its items
\* are "No commodity group" (value 0, stored as undefined) and the loaded
\* groups; onValueChange calls updateField
SelectCommodityGroup ==
    /\ app = "portal"
    /\ ~isLoadingGroups
    /\ edits < MaxEdits
    /\ \E value \in {NoGroupId} \cup commodityGroups :
        /\ value # formData.commodity_group_id
        /\ formData' = [formData EXCEPT !.commodity_group_id = value]
    /\ edits' = edits + 1
    /\ UNCHANGED <<typed, validationErrors, touchedFields, isSubmitting, existingRequest,
                   submitted, extractedData, creatingRequest>>
    /\ UNCHANGED <<app, uiVars, pipelineVars, dialogVars, validateVars, workflowVars>>

(***************************************************************************)
(* Deleting a request from the details dialog of the portal's board         *)
(* (KanbanBoard, RequestDetailsDialog).  The dialog component stays mounted *)
(* in the board, so isDeleting and showDeleteConfirm outlive the request it *)
(* shows.                                                                    *)
(***************************************************************************)
\* KanbanBoard.handleRequestClick
HandleRequestClick ==
    /\ app = "portal"
    /\ \E id \in RequestIds :
        /\ requests[id] # Absent
        /\ id # selectedRequest
        /\ selectedRequest' = id
    /\ UNCHANGED <<fetches, isLoading, showDeleteConfirm, isDeleting, deleteCalls, lastDrop,
                   statusCalls>>
    /\ UNCHANGED <<app, validateVars, workflowVars, formVars, pipelineVars, dialogVars,
                   formAuxVars>>

\* KanbanBoard.handleCloseDetails: setSelectedRequest(null), onUpdate()
HandleCloseDetails ==
    /\ app = "portal"
    /\ selectedRequest # NoRequestId
    /\ selectedRequest' = NoRequestId
    /\ startFetch
    /\ UNCHANGED <<showDeleteConfirm, isDeleting, deleteCalls, lastDrop, statusCalls>>
    /\ UNCHANGED <<app, validateVars, workflowVars, formVars, pipelineVars, dialogVars,
                   formAuxVars>>

\* the form's onDelete: setShowDeleteConfirm(true)
OnDelete ==
    /\ app = "portal"
    /\ selectedRequest # NoRequestId
    /\ ~showDeleteConfirm
    /\ showDeleteConfirm' = TRUE
    /\ UNCHANGED <<fetches, isLoading, selectedRequest, isDeleting, deleteCalls, lastDrop,
                   statusCalls>>
    /\ UNCHANGED <<app, validateVars, workflowVars, formVars, pipelineVars, dialogVars,
                   formAuxVars>>

\* CANCEL, or onOpenChange(false), of the confirmation dialog
CancelDelete ==
    /\ app = "portal"
    /\ selectedRequest # NoRequestId
    /\ showDeleteConfirm
    /\ showDeleteConfirm' = FALSE
    /\ UNCHANGED <<fetches, isLoading, selectedRequest, isDeleting, deleteCalls, lastDrop,
                   statusCalls>>
    /\ UNCHANGED <<app, validateVars, workflowVars, formVars, pipelineVars, dialogVars,
                   formAuxVars>>

\* the fetch slots not used yet
freeFetches == {f \in FetchIds : fetches[f].state = "none"}

\* handleDelete with a DELETE PERMANENTLY button that is never disabled
HandleDeleteNotDisabled ==
    /\ app = "portal"
    /\ selectedRequest # NoRequestId
    /\ showDeleteConfirm
    /\ Len(deleteCalls) < MaxRequests
    /\ Cardinality(freeFetches) >= 2
    /\ isDeleting' = TRUE
    /\ deleteCalls' = Append(deleteCalls, selectedRequest)
    /\ UNCHANGED <<fetches, isLoading, selectedRequest, showDeleteConfirm, lastDrop,
                   statusCalls>>
    /\ UNCHANGED <<app, validateVars, workflowVars, formVars, pipelineVars, dialogVars,
                   formAuxVars>>

\* handleDelete up to its await: DELETE PERMANENTLY is rendered in the
\* confirmation dialog and disabled while isDeleting; setIsDeleting(true),
\* api.deleteRequest(request.id).  (A success calls fetchRequests twice.)
HandleDelete ==
    /\ app = "portal"
    /\ selectedRequest # NoRequestId
    /\ showDeleteConfirm
    /\ ~isDeleting
    /\ Cardinality(freeFetches) >= 2
    /\ isDeleting' = TRUE
    /\ deleteCalls' = Append(deleteCalls, selectedRequest)
    /\ UNCHANGED <<fetches, isLoading, selectedRequest, showDeleteConfirm, lastDrop,
                   statusCalls>>
    /\ UNCHANGED <<app, validateVars, workflowVars, formVars, pipelineVars, dialogVars,
                   formAuxVars>>

\* a sequence without its i-th element
removeAt(seq, i) == [j \in 1..(Len(seq) - 1) |-> IF j < i THEN seq[j] ELSE seq[j + 1]]

\* handleDelete after the await, success: the backend has deleted the row
\* and its audit entries; toast, onClose() (handleCloseDetails, which calls
\* onUpdate), onUpdate(); finally both flags are reset
DeleteSucceeded ==
    /\ app = "portal"
    /\ clock < MaxClock
    /\ Cardinality(freeFetches) >= 2
    /\ \E i \in 1..Len(deleteCalls) :
        LET id == deleteCalls[i] IN
        /\ Exists(id)
        /\ clock' = clock + 1
        /\ db' = [db EXCEPT ![id] = [status |-> Deleted, updated_at |-> clock + 1]]
        /\ status_history' = cascadeDelete(status_history, id)
        /\ lastCall' = [via |-> "deleteRequest", id |-> id, current |-> db[id].status,
                        requested |-> Null, ok |-> TRUE, error |-> Null]
        /\ deleteCalls' = removeAt(deleteCalls, i)
    /\ selectedRequest' = NoRequestId
    /\ \E f \in freeFetches, g \in freeFetches :
        /\ f = nextFetch
        /\ g # f
        /\ \A h \in freeFetches \ {f} : g <= h
        /\ fetches' = [h \in FetchIds |-> IF h \in {f, g}
                                          THEN [fetches[h] EXCEPT !.state = "sent"]
                                          ELSE fetches[h]]
    /\ isLoading' = TRUE
    /\ isDeleting' = FALSE
    /\ showDeleteConfirm' = FALSE
    /\ UNCHANGED <<requests, draggedRequestId, lastDrop, statusCalls>>
    /\ UNCHANGED <<app, validateVars, formVars, pipelineVars, dialogVars, formAuxVars>>

\* handleDelete after the await, failure (the row is gone already, or the
\* call did not get through): toast; finally both flags are reset
DeleteFailed ==
    /\ app = "portal"
    /\ \E i \in 1..Len(deleteCalls) :
        LET id == deleteCalls[i] IN
        /\ lastCall' = [via |-> "deleteRequest", id |-> id, current |-> Null,
                        requested |-> Null, ok |-> FALSE,
                        error |-> IF Exists(id) THEN "NETWORK" ELSE "NOT_FOUND"]
        /\ deleteCalls' = removeAt(deleteCalls, i)
    /\ isDeleting' = FALSE
    /\ showDeleteConfirm' = FALSE
    /\ UNCHANGED <<fetches, isLoading, selectedRequest, lastDrop, statusCalls>>
    /\ UNCHANGED <<db, status_history, clock, requests, draggedRequestId>>
    /\ UNCHANGED <<app, validateVars, formVars, pipelineVars, dialogVars, formAuxVars>>

(***************************************************************************)
(* Specifications                                                          *)
(***************************************************************************)
\* the status workflow
Init ==
    /\ app \in {"portal", "frontend"}
    /\ ValidateIdle
    /\ WorkflowInit
    /\ FormIdle
    /\ PipelineIdle
    /\ DialogIdle
    /\ BoardIdle
    /\ FormAuxIdle

Next ==
    \/ CreateRequest
    \/ UpdateRequest
    \/ DeleteRequest
    \/ FetchRequests
    \/ PortalDragStart
    \/ PortalDragEnd
    \/ PortalDrop
    \/ KanbanDragEnd
    \/ TableStatusChange

Spec == Init /\ [][Next]_vars

\* the validators, each applied to every raw input
InitValidate ==
    /\ app = "portal"
    /\ input \in ValidateInputs \cup LongInputs \cup NumberInputs
    /\ fn = "none"
    /\ args = NoArgs
    /\ result = Null
    /\ WorkflowInit
    /\ FormIdle
    /\ PipelineIdle
    /\ DialogIdle
    /\ BoardIdle
    /\ FormAuxIdle

NextValidate ==
    \/ ApplySanitizeText
    \/ ApplyValidateVatId
    \/ ApplyValidateDepartment
    \/ ApplyValidateTextLength
    \/ ApplyValidateNumericInput
    \/ ApplyValidatePositionDescription
    \/ ApplyValidateUnit

SpecValidate == InitValidate /\ [][NextValidate]_vars

\* the request form and the create-from-extraction path
InitForm ==
    /\ ValidateIdle
    /\ WorkflowInit
    /\ PipelineIdle
    /\ DialogIdle
    /\ BoardIdle
    /\ FormAuxIdle
    /\ \/ app = "portal" /\ FormInit
       \/ app = "frontend" /\ FormIdle

NextForm ==
    \/ HandleFieldChange
    \/ AddOrderLine
    \/ RemoveOrderLine
    \/ HandleOrderLineText
    \/ HandleOrderLineNumber
    \/ HandleSubmit
    \/ SubmitSettled
    \/ HandleDataExtracted
    \/ HandleCancelExtracted
    \/ HandleCreateRequest
    \/ CreateSettled

SpecForm == InitForm /\ [][NextForm]_vars

\* the extraction engine and the classifier
InitPipeline ==
    /\ app = "frontend"
    /\ ValidateIdle
    /\ WorkflowInit
    /\ FormIdle
    /\ PipelineIdle
    /\ DialogIdle
    /\ BoardIdle
    /\ FormAuxIdle

NextPipeline ==
    \/ StartExtraction
    \/ UnreadableDocument
    \/ CompletionValid
    \/ CompletionInvalid
    \/ CompletionTimeout
    \/ StartClassification
    \/ Classify
    \/ ClassificationTimeout

SpecPipeline == InitPipeline /\ [][NextPipeline]_vars

\* the create-request dialog of the portal and the upload box of the
\* frontend App
InitDialog ==
    /\ app \in {"portal", "frontend"}
    /\ ValidateIdle
    /\ WorkflowInit
    /\ FormIdle
    /\ PipelineIdle
    /\ DialogIdle
    /\ BoardIdle
    /\ FormAuxIdle

NextDialog ==
    \/ OpenDialog
    \/ HandleClose
    \/ EnterManually
    \/ ProcessFile
    \/ UploadSucceeded
    \/ UploadFailed
    \/ HandleSuccess
    \/ OnDrop
    \/ OnDropSucceeded
    \/ OnDropFailed
    \/ HandleCancelExtracted
    \/ HandleCreateRequest
    \/ CreateSettled

SpecDialog == InitDialog /\ [][NextDialog]_vars

\* An upload end to end: the client posts the document, the backend runs the
\* extraction engine on it and answers, the client's promise settles.  A run
\* makes one call at a time: an upload with its extraction, or a classifier
\* call.  The engine holds no state between invocations.
Terminal == {"success", "failed"}

NoUploadPending == \A id \in UploadIds : uploads[id] \notin InFlight

UploadPending == \E id \in UploadIds : uploads[id] \in InFlight

\* PDFUpload onDrop / PDFDropZone processFile send the document
UploadStarted ==
    /\ NoUploadPending
    /\ extraction.state = "idle"
    /\ classification.state = "idle"
    /\ (OnDrop \/ ProcessFile)

\* POST /requests/extract reaches the engine
ExtractionRequested ==
    /\ UploadPending
    /\ (StartExtraction \/ UnreadableDocument)

\* the engine has produced data: 200, the promise resolves
ResponseOk ==
    /\ extraction.state = "success"
    /\ (OnDropSucceeded \/ UploadSucceeded)

\* the engine has failed: an error status, the promise rejects
ResponseError ==
    /\ extraction.state = "failed"
    /\ (OnDropFailed \/ UploadFailed)

\* the next upload finds a fresh engine
EngineReleased ==
    /\ NoUploadPending
    /\ extraction.state \in Terminal
    /\ extraction' = ExtractionIdle
    /\ UNCHANGED <<app, uiVars, dialogVars, validateVars, workflowVars, formVars, classification>>

\* a classifier call of its own
ClassifierCalled ==
    /\ \A id \in UploadIds : uploads[id] = "none"
    /\ extraction.state = "idle"
    /\ StartClassification

InitUpload ==
    /\ app \in {"portal", "frontend"}
    /\ ValidateIdle
    /\ WorkflowInit
    /\ FormIdle
    /\ PipelineIdle
    /\ DialogIdle
    /\ BoardIdle
    /\ FormAuxIdle

NextUpload ==
    \/ OpenDialog
    \/ HandleClose
    \/ EnterManually
    \/ UploadStarted
    \/ ExtractionRequested
    \/ CompletionValid
    \/ CompletionInvalid
    \/ CompletionTimeout
    \/ ResponseOk
    \/ ResponseError
    \/ EngineReleased
    \/ ClassifierCalled
    \/ Classify
    \/ ClassificationTimeout

\* The completion service answers or the mandatory timeout fires; the
\* backend then answers the HTTP request, and the browser settles the
\* promise of fetch and runs the continuation of the await.
SpecUpload ==
    /\ InitUpload
    /\ [][NextUpload]_vars
    /\ WF_vars(ExtractionRequested)
    /\ WF_vars(CompletionValid \/ CompletionInvalid \/ CompletionTimeout)
    /\ WF_vars(Classify \/ ClassificationTimeout)
    /\ WF_vars(ResponseOk \/ ResponseError)

\* the request list under overlapping fetches
InitFetch ==
    /\ app \in {"portal", "frontend"}
    /\ ValidateIdle
    /\ WorkflowInit
    /\ FormIdle
    /\ PipelineIdle
    /\ DialogIdle
    /\ ListMounted
    /\ FormAuxIdle

NextFetch ==
    \/ FetchRequestsStart
    \/ ServeFetch
    \/ FetchSucceeded
    \/ FetchFailed
    \/ BackendWrite

SpecFetch == InitFetch /\ [][NextFetch]_vars

\* the boards, with every drop handled in full
NextBoard ==
    \/ CreateRequest
    \/ FetchRequests
    \/ PortalDragStart
    \/ PortalDragEnd
    \/ HandleDrop
    \/ HandleDragEnd

SpecBoard == Init /\ [][NextBoard]_vars

\* the request form with its commodity group select
InitFormGroups ==
    /\ app = "portal"
    /\ ValidateIdle
    /\ WorkflowInit
    /\ PipelineIdle
    /\ DialogIdle
    /\ BoardIdle
    /\ FormAuxIdle
    /\ FormInit

NextFormGroups ==
    \/ GroupsLoaded
    \/ GroupsFailed
    \/ SelectCommodityGroup
    \/ HandleFieldChange
    \/ HandleSubmit
    \/ SubmitSettled

SpecFormGroups == InitFormGroups /\ [][NextFormGroups]_vars

\* the details dialog of the portal's board and its delete confirmation
InitDelete ==
    /\ app = "portal"
    /\ ValidateIdle
    /\ WorkflowInit
    /\ FormIdle
    /\ PipelineIdle
    /\ DialogIdle
    /\ BoardIdle
    /\ FormAuxIdle

NextDelete ==
    \/ CreateRequest
    \/ FetchRequests
    \/ HandleRequestClick
    \/ HandleCloseDetails
    \/ OnDelete
    \/ CancelDelete
    \/ HandleDelete
    \/ DeleteSucceeded
    \/ DeleteFailed
    \/ ServeFetch
    \/ FetchSucceeded
    \/ FetchFailed

SpecDelete == InitDelete /\ [][NextDelete]_vars

(***************************************************************************)
(* Claims                                                                  *)
(***************************************************************************)
AllowedPairs ==
    {<<"Open", "In Progress">>, <<"In Progress", "Closed">>, <<"Open", "Closed">>}

StatusRank(st) ==
    CASE st = "Open" -> 0 [] st = "In Progress" -> 1 [] st = "Closed" -> 2

\* C1: a transition request succeeds exactly for Open->In Progress,
\* In Progress->Closed and Open->Closed, every other pair fails with
\* INVALID_TRANSITION, and no step moves the status of a request backwards.
C1_TransitionsForwardOnly ==
    /\ [](lastCall.via # "none" /\ lastCall.error # "NOT_FOUND" =>
            /\ lastCall.ok <=> <<lastCall.current, lastCall.requested>> \in AllowedPairs
            /\ ~lastCall.ok => lastCall.error = "INVALID_TRANSITION")
    /\ [][\A id \in RequestIds :
            db[id].status \in Statuses /\ db'[id].status \in Statuses =>
                StatusRank(db'[id].status) >= StatusRank(db[id].status)]_vars

\* C1 witness: a request in review was asked to go back to Open, was refused
\* and is still in review
C1_Witness ==
    /\ lastCall.current = "In Progress"
    /\ lastCall.requested = "Open"
    /\ ~lastCall.ok
    /\ lastCall.error = "INVALID_TRANSITION"
    /\ db[lastCall.id].status = "In Progress"

\* C2: Closed is terminal: a transition requested by any client on a Closed
\* request fails with INVALID_TRANSITION, and a Closed request that still
\* exists after a step is still Closed.
C2_ClosedIsTerminal ==
    /\ [](lastCall.current = "Closed" =>
            ~lastCall.ok /\ lastCall.error = "INVALID_TRANSITION")
    /\ [][\A id \in RequestIds :
            db[id].status = "Closed" /\ db'[id].status \in Statuses =>
                db'[id].status = "Closed"]_vars

\* C2 witness: a closed card was dropped on another column of the board, the
\* call was refused and the request is still Closed
C2_Witness ==
    /\ lastCall.via = "handleDrop"
    /\ lastCall.current = "Closed"
    /\ lastCall.error = "INVALID_TRANSITION"
    /\ db[lastCall.id].status = "Closed"

\* the request whose status a step changed from one status to another
Transitioned(id) ==
    /\ db[id].status \in Statuses
    /\ db'[id].status \in Statuses
    /\ db'[id].status # db[id].status

\* a step appends exactly the entry of the transition it accepted, and no
\* other step changes the audit trail
AppendOnlyStep ==
    IF \E id \in RequestIds : Transitioned(id)
    THEN \E id \in RequestIds :
            /\ Transitioned(id)
            /\ status_history' =
                 Append(status_history,
                        auditEntry(id, db[id].status, db'[id].status, db'[id].updated_at))
    ELSE status_history' = status_history

\* C3 (as claimed): the audit trail is append-only: an accepted transition
\* appends exactly one entry {old_status, new_status, timestamp}, a rejected
\* one appends nothing, and after create, transition, update or delete every
\* entry recorded earlier is still present and unchanged.
C3_AuditTrailAppendOnly == [][AppendOnlyStep]_vars

\* C3 (amended): as above for create, transition and update; the delete of a
\* request removes exactly that request's entries and leaves the entries of
\* every other request present, unchanged and in order.
C3_AuditTrailAppendOnlyUntilDelete ==
    [][IF \E id \in RequestIds : db[id].status \in Statuses /\ db'[id].status = Deleted
       THEN \E id \in RequestIds :
                /\ db[id].status \in Statuses /\ db'[id].status = Deleted
                /\ \A i \in 1..Len(status_history') : status_history'[i].request_id # id
                /\ status_history' =
                     SelectSeq(status_history, LAMBDA e : e.request_id # id)
                /\ Len(status_history) - Len(status_history') =
                     Cardinality({i \in 1..Len(status_history) :
                                    status_history[i].request_id = id})
       ELSE AppendOnlyStep]_vars

\* C3 witness: a request whose transition had been recorded was deleted, and
\* the audit trail still holds the entries of another request
C3_Witness ==
    /\ lastCall.ok
    /\ db[lastCall.id].status = Deleted
    /\ Len(status_history) >= 1
    /\ \A i \in 1..Len(status_history) : status_history[i].request_id # lastCall.id

\* round(t, 2) of a non-negative amount held in ten-thousandths
round2(t) == ((t + Scale \div 2) \div Scale) * Scale

\* C4: every order line with unit_price >= 0 and amount >= 0 whose total was
\* recomputed has total_price = round(unit_price * amount, 2) exactly.
C4_LineTotalRounded ==
    \A i \in 1..Len(formData.order_lines) :
        LET line == formData.order_lines[i] IN
        line.recomputed /\ line.unit_price >= 0 /\ line.amount >= 0 =>
            line.total_price = round2(line.unit_price * line.amount)

Abs(n) == IF n < 0 THEN 0 - n ELSE n

\* C5: every payload handed to persistence for creation, by the form's submit
\* or by create-from-extracted-data, has total_cost equal to the sum of its
\* order lines' total_price within 0.01.
C5_TotalCostIsSumOfLines ==
    submitted.via \in {"createRequest", "handleCreateRequest"} =>
        Abs(submitted.data.total_cost - sumTotals(submitted.data.order_lines)) <= Scale

\* the payloads a state holds: the form's, and the one an extraction would give
Payloads ==
    {formData} \cup (IF extractedData.present THEN {requestDataOf(extractedData)} ELSE {})

EntityNames ==
    { <<"&", "a", "m", "p", ";">>, <<"&", "q", "u", "o", "t", ";">>,
      <<"&", "#", "x", "2", "7", ";">> }

\* an entity starts at position i of s
EntityAt(s, i) ==
    \E e \in EntityNames :
        i + Len(e) - 1 <= Len(s) /\ SubSeq(s, i, i + Len(e) - 1) = e

\* C7: the output of sanitizeText holds no '<', no '>', no raw quote, every
\* '&' in it starts one of &amp; &quot; &#x27;, and it neither starts nor ends
\* with white space.
C7_SanitizeTextOutput ==
    fn = "sanitizeText" =>
        /\ \A i \in 1..Len(result) : result[i] \notin {"<", ">", "\"", "'"}
        /\ \A i \in 1..Len(result) : result[i] = "&" => EntityAt(result, i)
        /\ result # <<>> =>
              result[1] \notin Whitespace /\ result[Len(result)] \notin Whitespace

\* C7 witness: an input with leading white space, markup and an ampersand
C7_Witness ==
    /\ fn = "sanitizeText"
    /\ Len(input) = 3
    /\ input[1] = " " /\ input[2] = "<" /\ input[3] = "&"
    /\ result = <<"&", "a", "m", "p", ";">>

\* C8: the value a validated text field holds in form state is sanitizeText
\* applied once to the text the user entered: no later keystroke escapes an
\* entity a second time.
C8_SanitizedOnce ==
    \A field \in {"requestor_name", "title", "vendor_name"} :
        <<field>> \in touchedFields =>
            formData[field] = sanitizeText(typed[field])

\* how many characters of the class s starts with
leadingCount(s, class) ==
    LET others == {i \in 1..Len(s) : s[i] \notin class} IN
    IF others = {} THEN Len(s)
    ELSE (CHOOSE i \in others : \A j \in others : i <= j) - 1

\* 2 to 4 letters A-Z followed by 8 to 12 digits, and nothing else
IsVatShape(s) ==
    LET k == leadingCount(s, Upper) IN
    /\ k >= 2 /\ k <= 4
    /\ Len(s) - k >= 8 /\ Len(s) - k <= 12
    /\ leadingCount(SubSeq(s, k + 1, Len(s)), Digits) = Len(s) - k

\* C9: validateVatId is valid exactly when the sanitized, upper-cased input is
\* 2-4 letters followed by 8-12 digits; an empty sanitized input fails with
\* 'VAT ID is required'; the sanitizedValue is always the upper-cased sanitized
\* input ("de123456789" gives valid "DE123456789", "XYZ12" invalid "XYZ12").
C9_ValidateVatId ==
    fn = "validateVatId" =>
        LET u == toUpperCase(sanitizeText(input)) IN
        /\ result.isValid <=> IsVatShape(u)
        /\ sanitizeText(input) = <<>> =>
              ~result.isValid /\ result.error = "VAT ID is required"
        /\ result.sanitizedValue = u
        /\ input = Example_de123456789 =>
              result.isValid /\ result.sanitizedValue = S_DE
        /\ input = Example_XYZ12 =>
              ~result.isValid /\ result.sanitizedValue = Example_XYZ12

\* C9 witness: the lower-case example was accepted and returned upper-cased
C9_Witness ==
    /\ fn = "validateVatId"
    /\ input = Example_de123456789
    /\ result.isValid
    /\ result.sanitizedValue # input

\* C10: validateDepartment accepts every non-empty input of at most 50
\* characters made only of letters, white space, hyphen, ampersand, period and
\* parentheses.
C10_DepartmentAllowsAmpersand ==
    (/\ fn = "validateDepartment"
     /\ Len(input) >= 1
     /\ Len(input) <= DEPARTMENT
     /\ \A i \in 1..Len(input) : input[i] \in DepartmentClass)
    => result.isValid

\* C11: the sanitizedValue validateDepartment returns holds only allowed
\* characters and is at most 50 characters long, also when the input both
\* holds disallowed characters and is longer than 50 characters.
C11_DepartmentSanitizedValue ==
    fn = "validateDepartment" =>
        /\ \A i \in 1..Len(result.sanitizedValue) :
              result.sanitizedValue[i] \in DepartmentClass
        /\ Len(result.sanitizedValue) <= DEPARTMENT

\* C12: validateTextLength is valid exactly when the sanitized text has
\* between 1 and maxLength characters, fails as required when it is empty and
\* as too long when it is longer, and always returns the prefix of the
\* sanitized text of length min(length, maxLength).
C12_ValidateTextLength ==
    fn = "validateTextLength" =>
        LET t == sanitizeText(input)
            m == args.maxLength
        IN
        /\ result.isValid <=> (1 <= Len(t) /\ Len(t) <= m)
        /\ Len(t) = 0 => ~result.isValid /\ result.error = "Field is required"
        /\ Len(t) > m =>
              /\ ~result.isValid
              /\ result.error = "Field must be " \o ToString(m) \o " characters or less"
        /\ result.sanitizedValue = SubSeq(t, 1, IF Len(t) < m THEN Len(t) ELSE m)
        /\ Len(result.sanitizedValue) <= m

\* C12 witness: a sanitized text longer than maxLength came back cut
C12_Witness ==
    /\ fn = "validateTextLength"
    /\ Len(sanitizeText(input)) > args.maxLength
    /\ ~result.isValid
    /\ Len(result.sanitizedValue) = args.maxLength
    /\ result.sanitizedValue # sanitizeText(input)

\* C13: validateNumericInput is valid exactly when the input parses to a
\* number n with min <= n <= max, and then returns n; below min it fails and
\* returns min, above max it fails and returns max, unparsable it fails and
\* returns 0; so for parsable input the returned value lies in [min, max].
C13_ValidateNumericInput ==
    fn = "validateNumericInput" =>
        LET n  == parseFloat(input)
            lo == args.min * Scale
            hi == args.max * Scale
        IN
        /\ result.isValid <=> (~n.nan /\ lo <= n.value /\ n.value <= hi)
        /\ result.isValid => result.sanitizedValue = n.value
        /\ (~n.nan /\ n.value < lo) => ~result.isValid /\ result.sanitizedValue = lo
        /\ (~n.nan /\ n.value > hi) => ~result.isValid /\ result.sanitizedValue = hi
        /\ n.nan => ~result.isValid /\ result.sanitizedValue = 0
        /\ ~n.nan => lo <= result.sanitizedValue /\ result.sanitizedValue <= hi

\* C13 witness: 0.5 with min 1 failed and came back as 1
C13_Witness ==
    /\ fn = "validateNumericInput"
    /\ input = S_0_5
    /\ args.min = 1
    /\ ~result.isValid
    /\ result.sanitizedValue = Scale

Validators ==
    {"validateTextLength", "validateVatId", "validateDepartment",
     "validateNumericInput", "validatePositionDescription", "validateUnit"}

\* C14: every validator returns, for every input, a ValidationResult that
\* carries a sanitizedValue, and an error message exactly when isValid is false.
C14_ValidatorsTotal ==
    fn \in Validators =>
        /\ DOMAIN result = {"isValid", "error", "sanitizedValue"}
        /\ result.isValid \in BOOLEAN
        /\ IF fn = "validateNumericInput"
           THEN result.sanitizedValue \in Int
           ELSE Len(result.sanitizedValue) >= 0
        /\ (result.error # Undefined) <=> ~result.isValid

\* C14 witness: a unit one character too long was refused with a message and
\* a cut value
C14_Witness ==
    /\ fn = "validateUnit"
    /\ Len(input) = UNIT + 1
    /\ ~result.isValid
    /\ result.error = "Unit must be 20 characters or less"
    /\ Len(result.sanitizedValue) = UNIT

\* C15: one extraction issues at most two completion requests (the initial
\* attempt and at most one corrective retry after a schema-validation
\* failure); a valid first or second response ends in success; a second
\* schema-validation failure ends in EXTRACTION_FAILED with the raw model
\* output attached; a finished extraction makes no further attempt.
C15_ExtractionRetryBounded ==
    /\ [](extraction.requests <= 2)
    /\ [](extraction.lastResponse = "valid" => extraction.state = "success")
    /\ [](extraction.schemaFailures >= 2 =>
            /\ extraction.state = "failed"
            /\ extraction.error = "EXTRACTION_FAILED"
            /\ extraction.raw \in MalformedOutputs)
    /\ [](extraction.requests = 2 => extraction.schemaFailures >= 1 /\ extraction.corrective)
    /\ [][extraction.state \in {"success", "failed"} => extraction' = extraction]_vars

\* C15 witness: the corrective retry failed schema validation too
C15_Witness ==
    /\ extraction.state = "failed"
    /\ extraction.requests = 2
    /\ extraction.schemaFailures = 2
    /\ extraction.error = "EXTRACTION_FAILED"
    /\ extraction.raw = "order_lines is not a list"

ManualEntryOpen ==
    \/ ENABLED OpenDialog
    \/ ENABLED EnterManually
    \/ formMounted /\ formPrefill = NoUpload /\ ENABLED HandleSuccess
    \/ ENABLED HandleClose

\* C18: once a document upload or its extraction has failed, the processing
\* flag is false again and the user can still reach the request form with
\* no extracted data and submit a manually entered request
C18_FailedUploadLeavesManualEntry ==
    (/\ lastUpload = "failed"
     /\ \A id \in UploadIds : uploads[id] # "live")
        => /\ ~isProcessing
           /\ ~uploading
           /\ ManualEntryOpen

\* C19: an extraction that completes after the dialog was closed changes
\* nothing: the reopened dialog offers the upload / manual choice, holds no
\* extracted data and shows no prefilled form
C19_CancelledExtractionDiscarded ==
    [][\A id \in UploadIds :
         (uploads[id] = "cancelled" /\ uploads'[id] = "done")
            => /\ UNCHANGED <<showForm, dialogData, formMounted, formPrefill>>
               /\ isDialogOpen' => (~showForm' /\ dialogData' = NoUpload)]_vars

\* the fields of a record built from an extraction that a validator refuses;
\* an optional field the extraction left out is not one of them
invalidExtractedFields(d) ==
    validateAllFields(d) \ { <<k>> : k \in {f \in {"vat_id", "department"} : d[f] = <<>>} }

\* C20: a record reaches the persistence API only if every field validator
\* accepts it: the form calls createRequest / updateRequest only when
\* validateAllFields finds nothing, and a request created directly from
\* extracted data has no field with isValid = false
C20_OnlyValidRecordsPersisted ==
    /\ submitted.via \in {"createRequest", "updateRequest"}
          => validateAllFields(submitted.data) = {}
    /\ submitted.via = "handleCreateRequest"
          => invalidExtractedFields(submitted.data) = {}

\* the form's half of C20 alone
FormSubmitsOnlyValid ==
    submitted.via \in {"createRequest", "updateRequest"}
        => validateAllFields(submitted.data) = {}

\* a failed upload has just been reported to the client
UploadFailureStep == lastUpload = "pending" /\ lastUpload' = "failed"

C22_ValidateUnit ==
    fn = "validateUnit" =>
        LET t  == trim(input)
            k  == leadingCount(input, Whitespace)
            sv == result.sanitizedValue
        IN
        /\ result.isValid <=> (1 <= Len(t) /\ Len(t) <= UNIT)
        /\ sv = SubSeq(t, 1, IF Len(t) < UNIT THEN Len(t) ELSE UNIT)
        /\ Len(sv) <= UNIT
        /\ k + Len(sv) <= Len(input)
        /\ sv = SubSeq(input, k + 1, k + Len(sv))
        /\ t # <<>> => t[1] \notin Whitespace /\ t[Len(t)] \notin Whitespace

\* C22 witness: markup and an ampersand pass through unchanged
C22_Witness ==
    /\ fn = "validateUnit"
    /\ input = <<" ", "<", "&">>
    /\ result.isValid
    /\ result.sanitizedValue = <<"<", "&">>

\* a unit longer than 20 characters came back cut to 20
C22_Truncated ==
    /\ fn = "validateUnit"
    /\ Len(trim(input)) > UNIT
    /\ ~result.isValid
    /\ Len(result.sanitizedValue) = UNIT

\* C23: every order line of a payload the form submits satisfies
\* total_price = unit_price * amount, whatever the form started from and
\* whatever was edited: an upstream total is never trusted
C23_LineTotalsRecomputed ==
    submitted.via \in {"createRequest", "updateRequest"} =>
        \A i \in 1..Len(submitted.data.order_lines) :
            LET line == submitted.data.order_lines[i] IN
            line.total_price = line.unit_price * line.amount

\* C24: the request form always holds at least one order line, whatever it
\* started from and whatever lines were added and removed, so no request is
\* submitted with zero order lines
C24_AtLeastOneOrderLine ==
    app = "portal" =>
        /\ Len(formData.order_lines) >= 1
        /\ submitted.via \in {"createRequest", "updateRequest"}
              => Len(submitted.data.order_lines) >= 1

Started == {f \in FetchIds : fetches[f].state # "none"}

\* the most recently started fetch
latestFetch == CHOOSE f \in Started : \A g \in Started : g <= f

\* C25: when fetches overlap, once all of them have completed the displayed
\* list is the response of the most recently started one, and the loading
\* flag is true whenever a fetch is in flight
C25_RefreshConsistent ==
    /\ (/\ \A f \in FetchIds : fetches[f].state \notin FetchPending
        /\ Started # {}
        /\ fetches[latestFetch].state = "done")
          => requests = fetches[latestFetch].response
    /\ (\E f \in FetchIds : fetches[f].state \in FetchPending) => isLoading

\* the first half of C25 alone
LatestResponseShown ==
    (/\ \A f \in FetchIds : fetches[f].state \notin FetchPending
     /\ Started # {}
     /\ fetches[latestFetch].state = "done")
        => requests = fetches[latestFetch].response

\* the second half of C25 alone
LoadingWhileInFlight ==
    (\E f \in FetchIds : fetches[f].state \in FetchPending) => isLoading

\* C26: at most one submission of the form is in flight: while isSubmitting
\* no createRequest / updateRequest call is issued; isSubmitting is false
\* again once the call has completed, successfully or not; onSuccess is
\* called only after a successful call
C26_OneSubmissionInFlight ==
    /\ [](submitsInFlight <= 1)
    /\ [](isSubmitting <=> submitsInFlight = 1)
    /\ [][submitsInFlight' > submitsInFlight => ~isSubmitting]_vars
    /\ [][submitsInFlight' < submitsInFlight => ~isSubmitting']_vars
    /\ [](lastSettle.onSuccess => lastSettle.outcome = "success")

\* C26 witness: a submission has failed; the form can be submitted again
C26_Witness ==
    /\ lastSettle.outcome = "failure"
    /\ ~lastSettle.onSuccess
    /\ ~isSubmitting
    /\ submitsInFlight = 0
    /\ submitted.via = "createRequest"

\* a drop has been handled
DropStep == lastDrop' # lastDrop \/ statusCalls' # statusCalls

\* the column a card is shown in
columnOf(id) ==
    IF id = NoRequestId \/ requests[id] = Absent THEN Null
    ELSE normalizeStatus(requests[id])

C27_OwnColumn ==
    /\ lastDrop.on = "handleDragEnd"
    /\ lastDrop.id # NoRequestId
    /\ requests[lastDrop.id] = lastDrop.target
    /\ statusCalls = 0

\* C28: the commodity_group_id the form submits is absent or the id of a
\* group of the taxonomy the form has loaded, for every prefill, every
\* selection, and when loading the taxonomy failed
C28_SubmittedGroupInTaxonomy ==
    (/\ submitted.via \in {"createRequest", "updateRequest"}
     /\ ~isLoadingGroups)
        => submitted.data.commodity_group_id \in commodityGroups \cup {NoGroupId}

\* what the user picks in the select is in the loaded taxonomy
SelectedGroupInTaxonomy ==
    [][formData'.commodity_group_id # formData.commodity_group_id
          => formData'.commodity_group_id \in commodityGroups \cup {NoGroupId}]_vars

\* a submit that validateAllFields rejects
RejectedSubmit ==
    /\ validateAllFields(formData) # {}
    /\ HandleSubmit

TouchedErrorsShown ==
    [][RejectedSubmit =>
          \A fieldKey \in validateAllFields(formData) \cap touchedFields :
              ErrorMessage(fieldKey)']_vars

\* a step in which deleteRequest is called
DeleteCalled == Len(deleteCalls') > Len(deleteCalls)

\* a step in which a call of deleteRequest settles
DeleteSettled == Len(deleteCalls') < Len(deleteCalls)

\* a step in which fetchRequests is called
RefreshStarted ==
    \E f \in FetchIds : fetches[f].state = "none" /\ fetches'[f].state = "sent"

C30_FailedShown ==
    ~(/\ lastCall.via = "deleteRequest"
      /\ ~lastCall.ok
      /\ selectedRequest = lastCall.id)

====
